---- MODULE Spec2Model ----
(***************************************************************************)
(* SpartanGold: account-based proof-of-work blockchain.                    *)
(*                                                                         *)
(* Modelled sources:                                                       *)
(*   src/block.js                     Block                                *)
(*   src/unnamed/part_006 (209-315)   Transaction                          *)
(*   src/unnamed/part_006 (120-207)   FakeNet                              *)
(*   src/unnamed/part_000 (120-283)   Blockchain (configuration)           *)
(*   src/tcpMiner.js      (228-560)   Client                               *)
(*   src/unnamed/part_001 (149-316)   Miner                                *)
(*   src/utils.js                     hash / sign / verifySignature        *)
(*                                                                         *)
(* Abstractions.  SHA-256 is collision free: a digest is the record        *)
(* [sha256 |-> input].  The 256-bit integer reading of a block digest is   *)
(* a deterministic residue in 0..HashSpace-1 of the hashed fields.  A      *)
(* signature is the pair (signing key, message).  Absent JSON fields are   *)
(* sentinels (Undefined, Null, NoProof, NoSig).  Block.timestamp and       *)
(* Transaction.data only feed the digests and are left out.  The messages   *)
(* in flight are a set: a message sent again while an equal one is still   *)
(* in flight is delivered once, and can be sent and delivered again later. *)
(***************************************************************************)
EXTENDS Integers, Sequences, FiniteSets, TLC

VARIABLES
    chain,        \* SpecBlock: blocks built by new Block / addTransaction, last one under construction;
                  \* SpecChain, SpecSync: the chain of blocks sent to the participant
    cl,           \* per participant: the fields of Client / Miner
    net,          \* FakeNet: messages handed to setTimeout and not yet emitted
    registered,   \* FakeNet.clients: addresses registered with the network
    sealed,       \* history: blocks as their miner had built them when the proof was found
    ev,           \* history: the handler that ran last, its input and what it saw before
    asked,        \* history: per participant and block id, the MISSING_BLOCK requests broadcast
    timers        \* SpecTick: the callbacks handed to setTimeout(.., 0), in the order they will run

vars == <<chain, cl, net, registered, sealed, ev, asked, timers>>

-----------------------------------------------------------------------------
(* Bounds of the model *)

MaxChainB == 2      \* SpecBlock: blocks on top of genesis
MaxTxs == 2         \* SpecBlock: transactions accepted along the chain
HashSpace == 3      \* number of distinct values of a block digest read as an integer

-----------------------------------------------------------------------------
(* Configuration: Blockchain.makeGenesis and the driver *)

POW_TARGET == 1
COINBASE_AMT_ALLOWED == 25
DEFAULT_TX_FEE == 1
CONFIRMED_DEPTH == 2

Addr == {"alice", "bob", "minnie", "donald"}

Undefined == "undefined"
Null == [null |-> TRUE]
NoProof == -1
NoSig == [none |-> TRUE]
Own == [own |-> TRUE]
EmptyMap == [a \in {} |-> 0]
NUM_ROUNDS_MINING == 2000

-----------------------------------------------------------------------------
(* utils.js *)

hash(s) == [sha256 |-> s]

keyPair(a) == [public |-> <<"pub", a>>, private |-> <<"priv", a>>]

calcAddress(key) == key[2]

addressMatchesKey(addr, pubKey) == addr = calcAddress(pubKey)

\* the string that sign and verifySignature hand to the signer: JSON.stringify(msg) for an
\* object (here {a: number}), ""+msg for a number; a string, and a digest, which is a
\* string, is taken as it is
msgString(msg) ==
    IF "js" \notin DOMAIN msg THEN msg
    ELSE IF msg.js = "object" THEN [js |-> "string", s |-> "{\"a\":" \o ToString(msg.a) \o "}"]
    ELSE IF msg.js = "number" THEN [js |-> "string", s |-> ToString(msg.n)]
    ELSE msg

sign(privKey, msg) == [key |-> privKey[2], msg |-> msgString(msg)]

\* verifySignature that looks at the key only
verifySignatureOfAnything(pubKey, msg, sig) == sig.key = pubKey[2]

verifySignature(pubKey, msg, sig) == sig.key = pubKey[2] /\ sig.msg = msgString(msg)

-----------------------------------------------------------------------------
(* JavaScript Map: a function on the keys present *)

MapHas(m, k) == k \in DOMAIN m

MapSet(m, k, v) == [x \in (DOMAIN m) \cup {k} |-> IF x = k THEN v ELSE m[x]]

RECURSIVE SumSeq(_)
SumSeq(s) == IF s = <<>> THEN 0 ELSE Head(s) + SumSeq(Tail(s))

RECURSIVE SumMap(_)
SumMap(m) ==
    IF DOMAIN m = {} THEN 0
    ELSE LET k == CHOOSE x \in DOMAIN m : TRUE
         IN m[k] + SumMap([x \in (DOMAIN m) \ {k} |-> m[x]])

\* a local variable: v is evaluated once and Op is applied to its value
WithValue(v, Op(_)) == CHOOSE y \in {Op(x) : x \in {v}} : TRUE

(* A Map keeping insertion order: a sequence of [id, tx] entries *)
EntryHas(es, k) == \E i \in 1..Len(es) : es[i].id = k

EntrySet(es, k, v) ==
    IF EntryHas(es, k)
    THEN [i \in 1..Len(es) |-> IF es[i].id = k THEN [id |-> k, tx |-> v] ELSE es[i]]
    ELSE Append(es, [id |-> k, tx |-> v])

-----------------------------------------------------------------------------
(* Transaction *)

\* new Transaction(o): obj names the allocation, Own for an object built from a
\* POST_TRANSACTION payload or by postTransaction, else the digest of the block payload
\* whose deserialisation created it.  JSON.stringify drops it (txJSON).
Transaction(o, obj) ==
    [from |-> o.from, nonce |-> o.nonce, pubKey |-> o.pubKey, sig |-> o.sig,
     fee |-> o.fee, outputs |-> o.outputs, obj |-> obj]

txJSON(tx) ==
    [from |-> tx.from, nonce |-> tx.nonce, pubKey |-> tx.pubKey, sig |-> tx.sig,
     fee |-> tx.fee, outputs |-> tx.outputs]

txId(tx) ==
    hash([from |-> tx.from, nonce |-> tx.nonce, pubKey |-> tx.pubKey,
          outputs |-> tx.outputs, fee |-> tx.fee])

signTx(tx, privKey) == [tx EXCEPT !.sig = sign(privKey, txId(tx))]

validSignature(tx) ==
    /\ tx.sig # NoSig
    /\ addressMatchesKey(tx.from, tx.pubKey)
    /\ verifySignature(tx.pubKey, txId(tx), tx.sig)

\* totalOutput that leaves the fee out
totalOutputNoFee(tx) == SumSeq([i \in 1..Len(tx.outputs) |-> tx.outputs[i].amount])

totalOutput(tx) == tx.fee + SumSeq([i \in 1..Len(tx.outputs) |-> tx.outputs[i].amount])

\* totalOutput() <= block.balances.get(from): the comparison with undefined is false
sufficientFunds(tx, block) ==
    /\ MapHas(block.balances, tx.from)
    /\ totalOutput(tx) <= block.balances[tx.from]

-----------------------------------------------------------------------------
(* Block *)

balanceOf(block, addr) == IF MapHas(block.balances, addr) THEN block.balances[addr] ELSE 0

isGenesisBlock(block) == block.chainLength = 0

\* totalRewards that leaves the fees out
totalRewardsNoFees(block) == COINBASE_AMT_ALLOWED

totalRewards(block) ==
    COINBASE_AMT_ALLOWED + SumSeq([i \in 1..Len(block.transactions) |-> block.transactions[i].tx.fee])

toJSON(block) ==
    IF isGenesisBlock(block)
    THEN [chainLength |-> block.chainLength, balances |-> block.balances,
          transactions |-> <<>>, prevBlockHash |-> Null, proof |-> NoProof,
          rewardAddr |-> Undefined]
    ELSE [chainLength |-> block.chainLength, balances |-> EmptyMap,
          transactions |-> [i \in 1..Len(block.transactions) |->
                              [id |-> block.transactions[i].id,
                               tx |-> txJSON(block.transactions[i].tx)]],
          prevBlockHash |-> block.prevBlockHash,
          proof |-> block.proof, rewardAddr |-> block.rewardAddr]

hashVal(block) == hash(toJSON(block))

\* new BigInteger(h, 16): the digest of the serialised block read as a number
hashInt(h) ==
    LET o == h.sha256
    IN IF o.chainLength = 0 THEN HashSpace - 1
       ELSE (o.proof + o.chainLength + Len(o.transactions)
               + Cardinality({i \in 1..Len(o.transactions) :
                                 o.transactions[i].id # txId(o.transactions[i].tx)})) % HashSpace

hasValidProof(block) == hashInt(hashVal(block)) < POW_TARGET

contains(block, tx) == EntryHas(block.transactions, txId(tx))

\* new Block(rewardAddr, prevBlock); NoBlock stands for a missing prevBlock
NoBlock == [none |-> TRUE]

\* new Block that pays the coinbase reward to its own miner at once
BlockPaysOwnMiner(rewardAddr, prevBlock) ==
    LET hasPrev == prevBlock # NoBlock
        bal == IF hasPrev THEN prevBlock.balances ELSE EmptyMap
        credited ==
            IF hasPrev
            THEN MapSet(bal, rewardAddr, balanceOf(prevBlock, rewardAddr) + COINBASE_AMT_ALLOWED)
            ELSE bal
    IN [prevBlockHash |-> IF hasPrev THEN hashVal(prevBlock) ELSE Null,
        balances |-> credited,
        nextNonce |-> IF hasPrev THEN prevBlock.nextNonce ELSE EmptyMap,
        transactions |-> <<>>,
        chainLength |-> IF hasPrev THEN prevBlock.chainLength + 1 ELSE 0,
        rewardAddr |-> rewardAddr,
        proof |-> NoProof]

Block(rewardAddr, prevBlock) ==
    LET hasPrev == prevBlock # NoBlock
        bal == IF hasPrev THEN prevBlock.balances ELSE EmptyMap
        credited ==
            IF hasPrev /\ prevBlock.rewardAddr # Undefined
            THEN MapSet(bal, prevBlock.rewardAddr,
                        balanceOf(prevBlock, prevBlock.rewardAddr) + totalRewards(prevBlock))
            ELSE bal
    IN [prevBlockHash |-> IF hasPrev THEN hashVal(prevBlock) ELSE Null,
        balances |-> credited,
        nextNonce |-> IF hasPrev THEN prevBlock.nextNonce ELSE EmptyMap,
        transactions |-> <<>>,
        chainLength |-> IF hasPrev THEN prevBlock.chainLength + 1 ELSE 0,
        rewardAddr |-> rewardAddr,
        proof |-> NoProof]

\* payOutputs that reads every payee's balance before the loop: a repeated address is
\* credited once
RECURSIVE payOutputsFromSnapshot(_, _)
payOutputsFromSnapshot(block, outputs) ==
    IF outputs = <<>> THEN block
    ELSE LET o == outputs[Len(outputs)]
         IN [payOutputsFromSnapshot(block, SubSeq(outputs, 1, Len(outputs) - 1)) EXCEPT
                !.balances = MapSet(@, o.address, o.amount + balanceOf(block, o.address))]

RECURSIVE payOutputs(_, _)
payOutputs(block, outputs) ==
    IF outputs = <<>> THEN block
    ELSE LET o == Head(outputs)
         IN payOutputs([block EXCEPT !.balances =
                            MapSet(block.balances, o.address, o.amount + balanceOf(block, o.address))],
                       Tail(outputs))

\* addTransaction without the out-of-order branch: a nonce above nextNonce is accepted
addTransactionAnyLaterNonce(block, tx) ==
    IF EntryHas(block.transactions, txId(tx)) THEN [ok |-> FALSE, b |-> block]
    ELSE IF tx.sig = NoSig THEN [ok |-> FALSE, b |-> block]
    ELSE IF ~validSignature(tx) THEN [ok |-> FALSE, b |-> block]
    ELSE IF ~sufficientFunds(tx, block) THEN [ok |-> FALSE, b |-> block]
    ELSE LET nonce == IF MapHas(block.nextNonce, tx.from) THEN block.nextNonce[tx.from] ELSE 0
         IN IF tx.nonce < nonce THEN [ok |-> FALSE, b |-> block]
            ELSE LET b1 == [block EXCEPT
                              !.nextNonce = MapSet(block.nextNonce, tx.from, nonce + 1),
                              !.transactions = Append(block.transactions,
                                                      [id |-> txId(tx), tx |-> tx])]
                     b2 == [b1 EXCEPT !.balances =
                              MapSet(b1.balances, tx.from, balanceOf(b1, tx.from) - totalOutput(tx))]
                 IN [ok |-> TRUE, b |-> payOutputs(b2, tx.outputs)]

\* addTransaction without the nonce test: a transaction of any nonce is accepted
addTransactionAnyNonce(block, tx) ==
    IF EntryHas(block.transactions, txId(tx)) THEN [ok |-> FALSE, b |-> block]
    ELSE IF tx.sig = NoSig THEN [ok |-> FALSE, b |-> block]
    ELSE IF ~validSignature(tx) THEN [ok |-> FALSE, b |-> block]
    ELSE IF ~sufficientFunds(tx, block) THEN [ok |-> FALSE, b |-> block]
    ELSE LET b1 == [block EXCEPT
                      !.nextNonce = MapSet(block.nextNonce, tx.from, tx.nonce + 1),
                      !.transactions = Append(block.transactions,
                                              [id |-> txId(tx), tx |-> tx])]
             b2 == [b1 EXCEPT !.balances =
                      MapSet(b1.balances, tx.from, balanceOf(b1, tx.from) - totalOutput(tx))]
         IN [ok |-> TRUE, b |-> payOutputs(b2, tx.outputs)]

\* addTransaction without the funds test: a transaction the sender cannot pay is accepted
addTransactionNoFundsTest(block, tx) ==
    IF EntryHas(block.transactions, txId(tx)) THEN [ok |-> FALSE, b |-> block]
    ELSE IF tx.sig = NoSig THEN [ok |-> FALSE, b |-> block]
    ELSE IF ~validSignature(tx) THEN [ok |-> FALSE, b |-> block]
    ELSE LET nonce == IF MapHas(block.nextNonce, tx.from) THEN block.nextNonce[tx.from] ELSE 0
         IN IF tx.nonce < nonce THEN [ok |-> FALSE, b |-> block]
            ELSE IF tx.nonce > nonce THEN [ok |-> FALSE, b |-> block]
            ELSE LET b1 == [block EXCEPT
                              !.nextNonce = MapSet(block.nextNonce, tx.from, nonce + 1),
                              !.transactions = Append(block.transactions,
                                                      [id |-> txId(tx), tx |-> tx])]
                     b2 == [b1 EXCEPT !.balances =
                              MapSet(b1.balances, tx.from, balanceOf(b1, tx.from) - totalOutput(tx))]
                 IN [ok |-> TRUE, b |-> payOutputs(b2, tx.outputs)]

addTransaction(block, tx) ==
    IF EntryHas(block.transactions, txId(tx)) THEN [ok |-> FALSE, b |-> block]
    ELSE IF tx.sig = NoSig THEN [ok |-> FALSE, b |-> block]
    ELSE IF ~validSignature(tx) THEN [ok |-> FALSE, b |-> block]
    ELSE IF ~sufficientFunds(tx, block) THEN [ok |-> FALSE, b |-> block]
    ELSE LET nonce == IF MapHas(block.nextNonce, tx.from) THEN block.nextNonce[tx.from] ELSE 0
         IN IF tx.nonce < nonce THEN [ok |-> FALSE, b |-> block]
            ELSE IF tx.nonce > nonce THEN [ok |-> FALSE, b |-> block]
            ELSE LET b1 == [block EXCEPT
                              !.nextNonce = MapSet(block.nextNonce, tx.from, nonce + 1),
                              !.transactions = Append(block.transactions,
                                                      [id |-> txId(tx), tx |-> tx])]
                     b2 == [b1 EXCEPT !.balances =
                              MapSet(b1.balances, tx.from, balanceOf(b1, tx.from) - totalOutput(tx))]
                 IN [ok |-> TRUE, b |-> payOutputs(b2, tx.outputs)]

RECURSIVE readd(_, _)
readd(block, txs) ==
    IF txs = <<>> THEN [ok |-> TRUE, b |-> block]
    ELSE LET r == addTransaction(block, Head(txs).tx)
         IN IF ~r.ok THEN [ok |-> FALSE, b |-> r.b] ELSE readd(r.b, Tail(txs))

\* rerun that does not credit the previous block's reward
rerunNoReward(block, prevBlock) ==
    readd([block EXCEPT !.balances = prevBlock.balances, !.nextNonce = prevBlock.nextNonce,
                        !.transactions = <<>>],
          block.transactions)

rerun(block, prevBlock) ==
    LET bal == IF prevBlock.rewardAddr # Undefined
               THEN MapSet(prevBlock.balances, prevBlock.rewardAddr,
                           balanceOf(prevBlock, prevBlock.rewardAddr) + totalRewards(prevBlock))
               ELSE prevBlock.balances
        b0 == [block EXCEPT !.balances = bal, !.nextNonce = prevBlock.nextNonce,
                            !.transactions = <<>>]
    IN readd(b0, block.transactions)

-----------------------------------------------------------------------------
(* Blockchain *)

\* deserializeBlock that restores the transactions in the opposite order
RECURSIVE setEntriesReversed(_, _, _)
setEntriesReversed(es, pairs, obj) ==
    IF pairs = <<>> THEN es
    ELSE setEntriesReversed(<<[id |-> Head(pairs).id, tx |-> Transaction(Head(pairs).tx, obj)]>> \o es,
                            Tail(pairs), obj)

RECURSIVE setEntries(_, _, _)
setEntries(es, pairs, obj) ==
    IF pairs = <<>> THEN es
    ELSE setEntries(EntrySet(es, Head(pairs).id, Transaction(Head(pairs).tx, obj)),
                    Tail(pairs), obj)

\* a Block instance carries nextNonce, a payload does not
isBlockInstance(o) == "nextNonce" \in DOMAIN o

deserializeBlock(o) ==
    LET b == Block(Undefined, NoBlock)
    IN IF isBlockInstance(o) THEN o
       ELSE IF o.chainLength = 0
       THEN [b EXCEPT !.chainLength = o.chainLength, !.balances = o.balances]
       ELSE [b EXCEPT !.chainLength = o.chainLength,
                      !.prevBlockHash = o.prevBlockHash,
                      !.proof = o.proof,
                      !.rewardAddr = o.rewardAddr,
                      !.transactions = setEntries(<<>>, o.transactions, hash(o))]

\* driver.js: clientBalanceMap of makeGenesis; donald joins later and holds nothing
StartingBalances == [a \in {"alice", "bob", "minnie"} |->
                        IF a = "alice" THEN 233 ELSE IF a = "bob" THEN 99 ELSE 400]

makeGenesis == [Block(Undefined, NoBlock) EXCEPT !.balances = StartingBalances]

-----------------------------------------------------------------------------
(* FakeNet *)

MISSING_BLOCK == "MISSING_BLOCK"
POST_TRANSACTION == "POST_TRANSACTION"
PROOF_FOUND == "PROOF_FOUND"

Miners == {"minnie", "donald"}
Participants == {"alice"} \cup Miners

\* One call of broadcast / sendMessage: the payload is copied (JSON) when it is sent.
\* POST_TRANSACTION is only listened to by miners (Miner.initialize); emitting it on a
\* plain client runs no handler, so those deliveries are left out.
broadcast(regs, sender, msg, o) ==
    [from |-> sender, msg |-> msg, o |-> o,
     to |-> IF msg = POST_TRANSACTION THEN regs \cap Miners ELSE regs]

sendMessage(address, sender, msg, o) ==
    [from |-> sender, msg |-> msg, o |-> o, to |-> {address}]

\* the messages one handler run hands to setTimeout
Sent(out) ==
    UNION {{[from |-> out[i].from, to |-> a, msg |-> out[i].msg, o |-> out[i].o] :
               a \in out[i].to} : i \in 1..Len(out)}

-----------------------------------------------------------------------------
(* Client.  A handler runs on a context c = [s, out, regs]: the participant's  *)
(* fields, the sends made so far and the addresses FakeNet knows.              *)

MapDelete(m, k) == [x \in (DOMAIN m) \ {k} |-> m[x]]

\* Client.constructor with a startingBlock, or makeGenesis calling setGenesisBlock
\* the Error thrown by postTransaction and by setGenesisBlock
Thrown == [error |-> TRUE]

\* the fields after the constructor when no startingBlock is given; miningRounds is the
\* Miner constructor's default
noChain(kind, address) ==
    [kind |-> kind,
     address |-> address,
     nonce |-> 0,
     pendingOutgoingTransactions |-> <<>>,
     blocks |-> EmptyMap,
     pendingBlocks |-> EmptyMap,
     lastConfirmedBlock |-> NoBlock,
     lastBlock |-> NoBlock,
     currentBlock |-> NoBlock,
     miningRounds |-> NUM_ROUNDS_MINING]

\* setGenesisBlock without the test of lastBlock
setGenesisBlockAgain(s, startingBlock) ==
    [s |-> [s EXCEPT !.lastConfirmedBlock = startingBlock,
                     !.lastBlock = startingBlock,
                     !.blocks = MapSet(@, hashVal(startingBlock), startingBlock)],
     ret |-> NoBlock]

\* "throw new Error" leaves the client as it was
setGenesisBlock(s, startingBlock) ==
    IF s.lastBlock # NoBlock THEN [s |-> s, ret |-> Thrown]
    ELSE [s |-> [s EXCEPT !.lastConfirmedBlock = startingBlock,
                          !.lastBlock = startingBlock,
                          !.blocks = MapSet(@, hashVal(startingBlock), startingBlock)],
          ret |-> NoBlock]

\* new Client / new Miner: "if (startingBlock) this.setGenesisBlock(startingBlock)"
newClient(kind, address, startingBlock) ==
    IF startingBlock = NoBlock THEN noChain(kind, address)
    ELSE setGenesisBlock(noChain(kind, address), startingBlock).s

confirmedBalance(s) == balanceOf(s.lastConfirmedBlock, s.address)

availableGold(s) ==
    confirmedBalance(s)
      - SumSeq([i \in 1..Len(s.pendingOutgoingTransactions) |->
                   totalOutput(s.pendingOutgoingTransactions[i].tx)])

RECURSIVE walkBack(_, _, _)
walkBack(s, block, confirmedBlockHeight) ==
    IF block.chainLength > confirmedBlockHeight
    THEN walkBack(s, s.blocks[block.prevBlockHash], confirmedBlockHeight)
    ELSE block

setLastConfirmed(s) ==
    LET h == s.lastBlock.chainLength - CONFIRMED_DEPTH
        confirmedBlockHeight == IF h < 0 THEN 0 ELSE h
        block == walkBack(s, s.lastBlock, confirmedBlockHeight)
    IN [s EXCEPT !.lastConfirmedBlock = block,
                 !.pendingOutgoingTransactions =
                     SelectSeq(@, LAMBDA e : ~contains(block, e.tx))]

requestMissingBlock(c, block) ==
    [c EXCEPT !.out = Append(@, broadcast(c.regs, c.s.address, MISSING_BLOCK,
                                          [from |-> c.s.address, missing |-> block.prevBlockHash]))]

\* a peer that never answers a request
ignoreMissingBlock(c, msg) == c

\* provideMissingBlock that answers by broadcast
provideToAll(c, msg) ==
    IF MapHas(c.s.blocks, msg.missing)
    THEN [c EXCEPT !.out = Append(@, broadcast(c.regs, c.s.address, PROOF_FOUND,
                                               toJSON(c.s.blocks[msg.missing])))]
    ELSE c

provideMissingBlock(c, msg) ==
    IF MapHas(c.s.blocks, msg.missing)
    THEN [c EXCEPT !.out = Append(@, sendMessage(msg.from, c.s.address, PROOF_FOUND,
                                                 toJSON(c.s.blocks[msg.missing])))]
    ELSE c

-----------------------------------------------------------------------------
(* Miner: the parts receiveBlock reaches *)

SetAdd(set, x) == IF \E i \in 1..Len(set) : set[i] = x THEN set ELSE Append(set, x)

RECURSIVE SetAddAll(_, _)
SetAddAll(set, es) ==
    IF es = <<>> THEN set ELSE SetAddAll(SetAdd(set, Head(es).tx), Tail(es))

\* while (nb.chainLength > cb.chainLength): returns [nb, nbTxs]
RECURSIVE rollBackNew(_, _, _, _)
rollBackNew(s, cb, nb, nbTxs) ==
    IF nb.chainLength > cb.chainLength
    THEN rollBackNew(s, cb, s.blocks[nb.prevBlockHash], SetAddAll(nbTxs, nb.transactions))
    ELSE [nb |-> nb, nbTxs |-> nbTxs]

\* while (cb && cb.id !== nb.id): returns [cbTxs, nbTxs]
RECURSIVE stepBack(_, _, _, _, _)
stepBack(s, cb, nb, cbTxs, nbTxs) ==
    IF cb # NoBlock /\ hashVal(cb) # hashVal(nb)
    THEN stepBack(s,
                  IF MapHas(s.blocks, cb.prevBlockHash) THEN s.blocks[cb.prevBlockHash] ELSE NoBlock,
                  IF MapHas(s.blocks, nb.prevBlockHash) THEN s.blocks[nb.prevBlockHash] ELSE NoBlock,
                  SetAddAll(cbTxs, cb.transactions),
                  SetAddAll(nbTxs, nb.transactions))
    ELSE [cbTxs |-> cbTxs, nbTxs |-> nbTxs]

\* Set.delete removes the same object only: same fields and same allocation
syncTransactions(s, newBlock) ==
    LET r1 == rollBackNew(s, s.currentBlock, newBlock, <<>>)
        r2 == stepBack(s, s.currentBlock, r1.nb, <<>>, r1.nbTxs)
    IN SelectSeq(r2.cbTxs, LAMBDA tx : ~\E i \in 1..Len(r2.nbTxs) : r2.nbTxs[i] = tx)

\* Miner.addTransaction on an object that already is a Transaction
RECURSIVE addAll(_, _)
addAll(block, txSet) ==
    IF txSet = <<>> THEN block ELSE addAll(addTransaction(block, Head(txSet)).b, Tail(txSet))

startNewSearch(s, txSet) ==
    [s EXCEPT !.currentBlock =
        [addAll(Block(s.address, s.lastBlock), txSet) EXCEPT !.proof = 0]]

-----------------------------------------------------------------------------
(* receiveBlock: Client.receiveBlock, and Miner.receiveBlock which a miner    *)
(* also runs for the unstuck blocks (this.receiveBlock is dispatched)         *)

\* a head is only replaced by a block at least two longer
adoptIfMuchLonger(s, b) ==
    IF s.lastBlock.chainLength + 1 < b.chainLength
    THEN setLastConfirmed([s EXCEPT !.lastBlock = b])
    ELSE s

\* a head is replaced by a block of equal chain length too
adoptIfNotShorter(s, b) ==
    IF s.lastBlock.chainLength <= b.chainLength
    THEN setLastConfirmed([s EXCEPT !.lastBlock = b])
    ELSE s

\* Client.receiveBlock: "if (this.lastBlock.chainLength < block.chainLength)"
adoptIfLonger(s, b) ==
    IF s.lastBlock.chainLength < b.chainLength
    THEN setLastConfirmed([s EXCEPT !.lastBlock = b])
    ELSE s

RECURSIVE receiveBlock(_, _)
RECURSIVE clientReceiveBlock(_, _)
RECURSIVE minerReceiveBlock(_, _)
RECURSIVE unstick(_, _)

\* unstuckBlocks.forEach((b) => this.receiveBlock(b))
unstick(c, unstuckBlocks) ==
    IF unstuckBlocks = <<>> THEN c
    ELSE WithValue(receiveBlock(c, Head(unstuckBlocks)).c,
                   LAMBDA c1 : unstick(c1, Tail(unstuckBlocks)))

\* the waiting blocks are removed from pendingBlocks and never received
dropWaiting(c, id) == [c EXCEPT !.s.pendingBlocks = MapDelete(@, id)]

\* "let unstuckBlocks = this.pendingBlocks.get(block.id) || []", delete, forEach
unstickWaiting(c, id) ==
    unstick([c EXCEPT !.s.pendingBlocks = MapDelete(@, id)],
            IF MapHas(c.s.pendingBlocks, id) THEN c.s.pendingBlocks[id] ELSE <<>>)

\* "this.blocks.set(block.id, block)" and all that follows it
storeBlock(c, b) ==
    [c |-> WithValue(
               [c EXCEPT !.s = adoptIfLonger([c.s EXCEPT !.blocks = MapSet(@, hashVal(b), b)], b)],
               LAMBDA c1 : unstickWaiting(c1, hashVal(b))),
     ret |-> b]

\* "let success = block.rerun(prevBlock); if (!success) return null"
storeIfRerun(c, r) ==
    IF ~r.ok THEN [c |-> c, ret |-> NoBlock] ELSE WithValue(r.b, LAMBDA b : storeBlock(c, b))

\* stickBlock that requests the parent for every block that waits for it
stickAndAsk(c, block) ==
    [c |-> [requestMissingBlock(c, block)
              EXCEPT !.s.pendingBlocks =
                  MapSet(@, block.prevBlockHash,
                         Append(IF MapHas(@, block.prevBlockHash)
                                THEN @[block.prevBlockHash] ELSE <<>>, block))],
     ret |-> NoBlock]

\* the parent is missing: request it the first time, and buffer the block
stickBlock(c, block) ==
    [c |-> [(IF MapHas(c.s.pendingBlocks, block.prevBlockHash)
             THEN c ELSE requestMissingBlock(c, block))
              EXCEPT !.s.pendingBlocks =
                  MapSet(@, block.prevBlockHash,
                         Append(IF MapHas(@, block.prevBlockHash)
                                THEN @[block.prevBlockHash] ELSE <<>>, block))],
     ret |-> NoBlock]

\* receiveBlock without the test for a block received previously
receiveAgain(c, block) ==
    IF ~hasValidProof(block) /\ ~isGenesisBlock(block) THEN [c |-> c, ret |-> NoBlock]
    ELSE IF ~MapHas(c.s.blocks, block.prevBlockHash) /\ ~isGenesisBlock(block)
    THEN stickBlock(c, block)
    ELSE IF isGenesisBlock(block) THEN storeBlock(c, block)
    ELSE WithValue(rerun(block, c.s.blocks[block.prevBlockHash]),
                   LAMBDA r : storeIfRerun(c, r))

\* Client.receiveBlock after "block = Blockchain.deserializeBlock(block)"
receiveDeserialized(c, block) ==
    IF MapHas(c.s.blocks, hashVal(block)) THEN [c |-> c, ret |-> NoBlock]
    ELSE IF ~hasValidProof(block) /\ ~isGenesisBlock(block) THEN [c |-> c, ret |-> NoBlock]
    ELSE IF ~MapHas(c.s.blocks, block.prevBlockHash) /\ ~isGenesisBlock(block)
    THEN stickBlock(c, block)
    ELSE IF isGenesisBlock(block) THEN storeBlock(c, block)
    ELSE WithValue(rerun(block, c.s.blocks[block.prevBlockHash]),
                   LAMBDA r : storeIfRerun(c, r))

clientReceiveBlock(c, o) ==
    WithValue(deserializeBlock(o), LAMBDA block : receiveDeserialized(c, block))

\* a miner that cuts over only to a block longer than its current block
restartIfLonger(r) ==
    IF r.ret = NoBlock THEN r
    ELSE IF r.c.s.currentBlock # NoBlock /\ r.ret.chainLength > r.c.s.currentBlock.chainLength
    THEN [r EXCEPT !.c.s = startNewSearch(@, syncTransactions(@, r.ret))]
    ELSE r

\* Miner.receiveBlock after "let b = super.receiveBlock(s)"
restartSearch(r) ==
    IF r.ret = NoBlock THEN r
    ELSE IF r.c.s.currentBlock # NoBlock /\ r.ret.chainLength >= r.c.s.currentBlock.chainLength
    THEN [r EXCEPT !.c.s = startNewSearch(@, syncTransactions(@, r.ret))]
    ELSE r

minerReceiveBlock(c, o) == WithValue(clientReceiveBlock(c, o), LAMBDA r : restartSearch(r))

receiveBlock(c, o) ==
    IF c.s.kind = "miner" THEN minerReceiveBlock(c, o) ELSE clientReceiveBlock(c, o)

-----------------------------------------------------------------------------
(* SpecBlock: one chain of blocks driven through new Block, addTransaction  *)
(* and rerun with transactions drawn from TxInputs.                         *)

Senders == {"alice", "bob", "donald"}
Payees == {"bob", "donald"}
Amounts == {-100, 40, 250}
MaxNonce == 1

\* what Client.postTransaction builds: Blockchain.makeTransaction, then tx.sign
makeTransaction(from, nonce, outputs, fee) ==
    LET tx == Transaction([from |-> from, nonce |-> nonce, pubKey |-> keyPair(from).public,
                           sig |-> NoSig, fee |-> fee, outputs |-> outputs], Own)
    IN signTx(tx, keyPair(from).private)

OutputLists ==
    {<<[amount |-> a, address |-> p]>> : a \in Amounts, p \in Payees}
      \cup {<<[amount |-> 40, address |-> "bob"], [amount |-> 40, address |-> q]>> :
               q \in {"bob", "alice"}}

SignedInputs ==
    {makeTransaction(f, n, os, DEFAULT_TX_FEE) : f \in Senders, n \in 0..MaxNonce, os \in OutputLists}
      \cup {makeTransaction(f, 0, <<[amount |-> 0, address |-> "bob"]>>, fee) :
               f \in Senders, fee \in {0, -30}}

\* unsigned, signed with another key, or naming another sender's key
BadlySigned ==
    LET t == makeTransaction("alice", 0, <<[amount |-> 40, address |-> "bob"]>>, DEFAULT_TX_FEE)
    IN {[t EXCEPT !.sig = NoSig],
        [t EXCEPT !.sig = sign(keyPair("bob").private, txId(t))],
        signTx([t EXCEPT !.pubKey = keyPair("bob").public], keyPair("bob").private)}

TxInputs == SignedInputs \cup BadlySigned

Last(s) == s[Len(s)]

NoEvent == [op |-> "none"]

NoClients == [p \in {} |-> 0]

InitBlock ==
    /\ chain = <<makeGenesis>>
    /\ cl = NoClients
    /\ net = {}
    /\ registered = {}
    /\ sealed = {}
    /\ ev = NoEvent
    /\ asked = EmptyMap
    /\ timers = <<>>

\* new Block(rewardAddr, prevBlock) on top of the chain
BlkNew(r) ==
    /\ Len(chain) <= MaxChainB
    /\ chain' = Append(chain, Block(r, Last(chain)))
    /\ ev' = [op |-> "new", prev |-> Last(chain)]
    /\ UNCHANGED <<cl, net, registered, sealed, asked, timers>>

\* block.addTransaction(tx) on the block under construction
BlkAdd(tx) ==
    /\ Len(chain) >= 2
    /\ SumSeq([i \in 1..Len(chain) |-> Len(chain[i].transactions)]) < MaxTxs
    /\ LET r == addTransaction(Last(chain), tx)
       IN /\ chain' = [chain EXCEPT ![Len(chain)] = r.b]
          /\ ev' = [op |-> "addTransaction", tx |-> tx, pre |-> Last(chain), ok |-> r.ok]
    /\ UNCHANGED <<cl, net, registered, sealed, asked, timers>>

\* Blockchain.deserializeBlock of the serialised top block, then block.rerun(prevBlock)
BlkRerun ==
    /\ Len(chain) >= 2
    /\ LET top == Last(chain)
           r == rerun(deserializeBlock(toJSON(top)), chain[Len(chain) - 1])
       IN ev' = [op |-> "rerun", pre |-> top, ok |-> r.ok, b |-> r.b]
    /\ UNCHANGED <<chain, cl, net, registered, sealed, asked, timers>>

NextBlock ==
    \/ \E r \in {"minnie", "donald"} : BlkNew(r)
    \/ \E tx \in TxInputs : BlkAdd(tx)
    \/ BlkRerun

SpecBlock == InitBlock /\ [][NextBlock]_vars

-----------------------------------------------------------------------------
(* Message delivery: FakeNet's setTimeout callback emits msg on the recipient *)

ctx(p) == [s |-> cl[p], out |-> <<>>, regs |-> registered]

\* the requests counted in a, and those among the broadcasts of one handler run
RECURSIVE askedAfter(_, _)
askedAfter(a, out) ==
    IF out = <<>> THEN a
    ELSE askedAfter(IF Head(out).msg = MISSING_BLOCK
                    THEN MapSet(a, <<Head(out).from, Head(out).o.missing>>,
                                1 + (IF MapHas(a, <<Head(out).from, Head(out).o.missing>>)
                                     THEN a[<<Head(out).from, Head(out).o.missing>>] ELSE 0))
                    ELSE a,
                    Tail(out))

\* the handler has returned r for message m: the state after the callback
Handled(m, op, r) ==
    /\ cl' = [cl EXCEPT ![m.to] = r.c.s]
    /\ net' = (net \ {m}) \cup Sent(r.c.out)
    /\ ev' = [op |-> op, who |-> m.to, o |-> m.o, pre |-> cl[m.to],
              ret |-> r.ret, out |-> r.c.out]
    /\ asked' = askedAfter(asked, r.c.out)
    /\ UNCHANGED timers

\* PROOF_FOUND -> receiveBlock
DeliverBlock(m) ==
    /\ m \in net /\ m.msg = PROOF_FOUND
    /\ \E r \in {receiveBlock(ctx(m.to), m.o)} : Handled(m, "receiveBlock", r)
    /\ UNCHANGED <<chain, registered, sealed>>

\* MISSING_BLOCK -> provideMissingBlock
DeliverMissing(m) ==
    /\ m \in net /\ m.msg = MISSING_BLOCK
    /\ Handled(m, "provideMissingBlock",
               [c |-> provideMissingBlock(ctx(m.to), m.o), ret |-> NoBlock])
    /\ UNCHANGED <<chain, registered, sealed>>

-----------------------------------------------------------------------------
(* SpecRecv: one client holding the genesis block is sent block payloads, in  *)
(* any order: two honest branches, and payloads an attacker can build.        *)

\* the proof Miner.findProof stops at, searching from proof = 0
RECURSIVE searchProof(_)
searchProof(block) ==
    IF hasValidProof(block) THEN block ELSE searchProof([block EXCEPT !.proof = @ + 1])

mined(block) == searchProof([block EXCEPT !.proof = 0])

T1 == makeTransaction("alice", 0, <<[amount |-> 40, address |-> "bob"]>>, DEFAULT_TX_FEE)
T2 == makeTransaction("alice", 1, <<[amount |-> 40, address |-> "bob"]>>, DEFAULT_TX_FEE)

B1 == mined(addTransaction(Block("minnie", makeGenesis), T1).b)
B2 == mined(Block("minnie", B1))
B3 == mined(addTransaction(Block("minnie", B2), T2).b)
D1 == mined(Block("donald", makeGenesis))
D2 == mined(addTransaction(Block("donald", D1), T1).b)

\* a proof that does not meet the target
BadProof == [toJSON(B2) EXCEPT !.proof = @ + 1]
\* a block with a valid proof that replays T1 on top of B1
BadReplay ==
    toJSON(mined([Block("donald", B1) EXCEPT !.transactions = <<[id |-> txId(T1), tx |-> T1]>>]))
\* a payload of chain length 0 with balances of the sender's choice
OtherGenesis == [toJSON(makeGenesis) EXCEPT !.balances = [a \in {"donald"} |-> 1000]]
\* a block on the genesis block that claims chain length 3
LongJump == toJSON(mined([Block("donald", makeGenesis) EXCEPT !.chainLength = 3]))

\* a block on the genesis block whose transaction is filed under another id
WrongKey ==
    toJSON(mined([Block("donald", makeGenesis) EXCEPT
                     !.transactions = <<[id |-> txId(T2), tx |-> T1]>>]))

HonestPayloads == {toJSON(b) : b \in {B1, B2, B3, D1, D2}}
ForgedPayloads == {BadProof, BadReplay, OtherGenesis, LongJump, WrongKey}

InitRecv ==
    /\ chain = <<>>
    /\ cl = [p \in {"alice"} |-> newClient("client", p, makeGenesis)]
    /\ registered = {"alice"}
    /\ net = {[from |-> "minnie", to |-> "alice", msg |-> PROOF_FOUND, o |-> o] :
                 o \in HonestPayloads \cup ForgedPayloads}
    /\ sealed = {}
    /\ ev = NoEvent
    /\ asked = EmptyMap
    /\ timers = <<>>

NextRecv ==
    \E m \in net : DeliverBlock(m) \/ DeliverMissing(m)

SpecRecv == InitRecv /\ [][NextRecv]_vars

-----------------------------------------------------------------------------
(* SpecChain: a chain of valid blocks is delivered, in any order, to a client *)
(* that holds only the genesis block; a peer that holds the whole chain       *)
(* answers the client's requests for missing blocks.                          *)

B4 == mined(Block("donald", B3))

Chains == {<<B1, B2, B3, B4>>, <<B1, B2, B3>>, <<D1, D2>>}

\* the blocks received one after the other, each on top of its stored parent
RECURSIVE inOrder(_, _)
inOrder(s, bs) ==
    IF bs = <<>> THEN s
    ELSE inOrder(receiveBlock([s |-> s, out |-> <<>>, regs |-> {}], toJSON(Head(bs))).c.s, Tail(bs))

InitChain ==
    /\ chain \in Chains
    /\ cl = [p \in {"alice", "minnie"} |->
               IF p = "alice" THEN newClient("client", p, makeGenesis)
               ELSE inOrder(newClient("miner", p, makeGenesis), chain)]
    /\ registered = {"alice", "minnie"}
    /\ net = {[from |-> "minnie", to |-> "alice", msg |-> PROOF_FOUND, o |-> toJSON(chain[i])] :
                 i \in 1..Len(chain)}
    /\ sealed = {}
    /\ ev = NoEvent
    /\ asked = EmptyMap
    /\ timers = <<>>

SpecChain == InitChain /\ [][NextRecv]_vars

\* every block sent to alice has been delivered
AllDelivered == ~\E m \in net : m.msg = PROOF_FOUND /\ m.to = "alice"

\* C7: once all blocks of the chain have been delivered, in whatever order, the client has
\* the blocks store, lastBlock and lastConfirmedBlock of in-order delivery, and pendingBlocks
\* is empty.
C7_AnyOrderSameResult ==
    AllDelivered =>
        /\ cl["alice"].blocks = inOrder(newClient("client", "alice", makeGenesis), chain).blocks
        /\ hashVal(cl["alice"].lastBlock) = hashVal(Last(chain))
        /\ cl["alice"].lastBlock =
              inOrder(newClient("client", "alice", makeGenesis), chain).lastBlock
        /\ cl["alice"].lastConfirmedBlock =
              inOrder(newClient("client", "alice", makeGenesis), chain).lastConfirmedBlock
        /\ cl["alice"].pendingBlocks = EmptyMap

\* the first block of a chain of four arrives last and unsticks the three that waited
C7_Witness ==
    /\ AllDelivered
    /\ Len(chain) = 4
    /\ ev.op = "receiveBlock"
    /\ ev.o = toJSON(chain[1])
    /\ DOMAIN ev.pre.blocks = {hashVal(makeGenesis)}
    /\ ev.pre.pendingBlocks # EmptyMap
    /\ hashVal(cl["alice"].lastBlock) = hashVal(chain[4])

-----------------------------------------------------------------------------
(* Client.postTransaction and resendPendingTransactions; Miner.initialize,    *)
(* findProof, announceProof and addTransaction                                *)

\* postTransaction after the availableGold check
\* postTransaction that forgets "this.nonce++"
broadcastKeepingNonce(c, tx) ==
    [c |-> [c EXCEPT !.s.pendingOutgoingTransactions = EntrySet(@, txId(tx), tx),
                     !.out = Append(@, broadcast(c.regs, c.s.address, POST_TRANSACTION,
                                                 txJSON(tx)))],
     ret |-> tx]

broadcastTransaction(c, tx) ==
    [c |-> [c EXCEPT !.s.pendingOutgoingTransactions = EntrySet(@, txId(tx), tx),
                     !.s.nonce = @ + 1,
                     !.out = Append(@, broadcast(c.regs, c.s.address, POST_TRANSACTION,
                                                 txJSON(tx)))],
     ret |-> tx]

\* postTransaction that compares the payment with the confirmed balance
postTransactionIgnoringPending(c, outputs, fee) ==
    IF SumSeq([i \in 1..Len(outputs) |-> outputs[i].amount]) + fee > confirmedBalance(c.s)
    THEN [c |-> c, ret |-> Thrown]
    ELSE broadcastTransaction(c, makeTransaction(c.s.address, c.s.nonce, outputs, fee))

\* "throw new Error" leaves the client as it was; otherwise the posted transaction is returned
postTransaction(c, outputs, fee) ==
    IF SumSeq([i \in 1..Len(outputs) |-> outputs[i].amount]) + fee > availableGold(c.s)
    THEN [c |-> c, ret |-> Thrown]
    ELSE broadcastTransaction(c, makeTransaction(c.s.address, c.s.nonce, outputs, fee))

resendPendingTransactions(c) ==
    [c EXCEPT !.out = @ \o [i \in 1..Len(c.s.pendingOutgoingTransactions) |->
                               broadcast(c.regs, c.s.address, POST_TRANSACTION,
                                         txJSON(c.s.pendingOutgoingTransactions[i].tx))]]

\* Miner.initialize: startNewSearch with an empty set (the listeners are FakeNet's routing)
initialize(s) == startNewSearch(s, <<>>)

\* Miner.addTransaction of a POST_TRANSACTION payload
\* a miner that also writes the transaction into the block it has stored as its head
addTransactionToHead(s, o) ==
    [s EXCEPT !.currentBlock = addTransaction(@, Transaction(o, Own)).b,
              !.blocks = MapSet(@, hashVal(s.lastBlock),
                                addTransaction(s.lastBlock, Transaction(o, Own)).b)]

minerAddTransaction(s, o) ==
    [s EXCEPT !.currentBlock = addTransaction(@, Transaction(o, Own)).b]

\* announceProof that broadcasts the block twice
announceTwice(c) ==
    [c EXCEPT !.out = @ \o <<broadcast(c.regs, c.s.address, PROOF_FOUND, toJSON(c.s.currentBlock)),
                              broadcast(c.regs, c.s.address, PROOF_FOUND, toJSON(c.s.currentBlock))>>]

\* a network that hands the sender's Block object itself to the recipients
announceInstance(c) ==
    [c EXCEPT !.out = Append(@, broadcast(c.regs, c.s.address, PROOF_FOUND, c.s.currentBlock))]

announceProof(c) ==
    [c EXCEPT !.out = Append(@, broadcast(c.regs, c.s.address, PROOF_FOUND,
                                          toJSON(c.s.currentBlock)))]

\* "this.announceProof(); this.receiveBlock(this.currentBlock); this.startNewSearch()"
proofFound(c) ==
    WithValue(receiveBlock(announceProof(c), c.s.currentBlock).c,
              LAMBDA c1 : [c1 EXCEPT !.s = startNewSearch(@, <<>>)])

\* a findProof loop without the pause point
RECURSIVE mineUntilFound(_, _, _)
mineUntilFound(c, pausePoint, checks) ==
    IF hasValidProof(c.s.currentBlock)
    THEN [c |-> proofFound(c), found |-> TRUE, checks |-> checks + 1]
    ELSE mineUntilFound([c EXCEPT !.s.currentBlock.proof = @ + 1], pausePoint, checks + 1)

\* the loop of findProof: c after the loop, whether a proof was found, and the number of
\* hasValidProof() evaluations
RECURSIVE mineLoop(_, _, _)
mineLoop(c, pausePoint, checks) ==
    IF ~(c.s.currentBlock.proof < pausePoint)
    THEN [c |-> c, found |-> FALSE, checks |-> checks]
    ELSE IF hasValidProof(c.s.currentBlock)
    THEN [c |-> proofFound(c), found |-> TRUE, checks |-> checks + 1]
    ELSE mineLoop([c EXCEPT !.s.currentBlock.proof = @ + 1], pausePoint, checks + 1)

\* one run of findProof; setTimeout then emits START_MINING again
findProof(c) == mineLoop(c, c.s.currentBlock.proof + c.s.miningRounds, 0)

-----------------------------------------------------------------------------------------------------------------------------------------------------
(* SpecNet: alice (client) and minnie (miner) of the driver.  alice pays bob, *)
(* minnie mines, and transactions are sent again by alice and by an           *)
(* eavesdropper.                                                              *)

MaxMined == 2
MaxPost == 1

\* what a miner has built when it finds the proof, before the block is announced
Sealed(block, regs) ==
    [id |-> hashVal(block), chainLength |-> block.chainLength, balances |-> block.balances,
     nextNonce |-> block.nextNonce, regs |-> regs]

\* a method called on participant p from outside a message handler has returned c
CalledRet(p, op, o, c, ret) ==
    /\ cl' = [cl EXCEPT ![p] = c.s]
    /\ net' = net \cup Sent(c.out)
    /\ ev' = [op |-> op, who |-> p, o |-> o, pre |-> cl[p], ret |-> ret, out |-> c.out]
    /\ asked' = askedAfter(asked, c.out)
    /\ UNCHANGED timers

Called(p, op, o, c) == CalledRet(p, op, o, c, NoBlock)

\* p.postTransaction(outputs, fee) called by the driver
Post(p, outputs, fee) ==
    \E r \in {postTransaction(ctx(p), outputs, fee)} :
        CalledRet(p, "postTransaction", [outputs |-> outputs, fee |-> fee], r.c, r.ret)

InitNet ==
    /\ chain = <<>>
    /\ cl = [p \in {"alice", "minnie"} |->
               IF p = "minnie" THEN initialize(newClient("miner", p, makeGenesis))
               ELSE newClient("client", p, makeGenesis)]
    /\ registered = {"alice", "minnie"}
    /\ net = {}
    /\ sealed = {}
    /\ ev = NoEvent
    /\ asked = EmptyMap
    /\ timers = <<>>

\* alice.postTransaction([{amount: 40, address: bob}])
PostTransaction ==
    /\ cl["alice"].nonce < MaxPost
    /\ Post("alice", <<[amount |-> 40, address |-> "bob"]>>, DEFAULT_TX_FEE)
    /\ UNCHANGED <<chain, registered, sealed>>

\* alice.resendPendingTransactions()
Resend ==
    /\ cl["alice"].pendingOutgoingTransactions # <<>>
    /\ Called("alice", "resendPendingTransactions", NoBlock,
              resendPendingTransactions(ctx("alice")))
    /\ UNCHANGED <<chain, registered, sealed>>

\* the transactions an eavesdropper has seen in announced blocks
TxsIn(block) == {txJSON(block.transactions[i].tx) : i \in 1..Len(block.transactions)}

Overheard ==
    UNION {UNION {TxsIn(cl[p].blocks[id]) : id \in DOMAIN cl[p].blocks} : p \in registered}

\* net.broadcast(POST_TRANSACTION, oldTransaction): FakeNet messages name no sender
Replay(o) ==
    /\ net' = net \cup Sent(<<broadcast(registered, o.from, POST_TRANSACTION, o)>>)
    /\ ev' = [op |-> "replay", o |-> o]
    /\ UNCHANGED <<chain, cl, registered, sealed, asked, timers>>

\* START_MINING -> findProof, on a miner that has been initialised
FindProof(p) ==
    /\ cl[p].currentBlock # NoBlock
    /\ Cardinality(sealed) < MaxMined
    /\ \E r \in {findProof(ctx(p))} :
          /\ CalledRet(p, "findProof", NoBlock, r.c, [found |-> r.found, checks |-> r.checks])
          /\ sealed' = IF r.found
                        THEN sealed \cup {Sealed(searchProof(cl[p].currentBlock), registered)}
                        ELSE sealed
    /\ UNCHANGED <<chain, registered>>

\* POST_TRANSACTION -> Miner.addTransaction
DeliverTx(m) ==
    /\ m \in net /\ m.msg = POST_TRANSACTION
    /\ Handled(m, "addTransaction",
               [c |-> [ctx(m.to) EXCEPT !.s = minerAddTransaction(@, m.o)], ret |-> NoBlock])
    /\ UNCHANGED <<chain, registered, sealed>>

DeliverBlocks == \E m \in net : DeliverBlock(m)
DeliverRequests == \E m \in net : DeliverMissing(m)
DeliverTxs == \E m \in net : DeliverTx(m)

NextNet ==
    \/ PostTransaction
    \/ Resend
    \/ \E o \in Overheard : Replay(o)
    \/ FindProof("minnie")
    \/ DeliverBlocks
    \/ DeliverRequests
    \/ DeliverTxs

SpecNet == InitNet /\ [][NextNet]_vars

-----------------------------------------------------------------------------
(* SpecLate: the driver's late miner.  minnie mines from the start; donald,   *)
(* constructed on the genesis block, registers and starts mining later.       *)

InitLate ==
    /\ chain = <<>>
    /\ cl = [p \in Miners |->
               IF p = "minnie" THEN initialize(newClient("miner", p, makeGenesis))
               ELSE newClient("miner", p, makeGenesis)]
    /\ registered = {"minnie"}
    /\ net = {}
    /\ sealed = {}
    /\ ev = NoEvent
    /\ asked = EmptyMap
    /\ timers = <<>>

\* fakeNet.register(donald); donald.initialize()
Register ==
    /\ "donald" \notin registered
    /\ registered' = registered \cup {"donald"}
    /\ cl' = [cl EXCEPT !["donald"] = initialize(@)]
    /\ ev' = [op |-> "register", who |-> "donald"]
    /\ UNCHANGED <<chain, net, sealed, asked, timers>>

NextLate ==
    \/ Register
    \/ \E p \in Miners : FindProof(p)
    \/ DeliverBlocks
    \/ DeliverRequests

SpecLate == InitLate /\ [][NextLate]_vars

\* FakeNet hands every message to setTimeout, so every delivery is eventually run
SpecLateFair == SpecLate /\ WF_vars(DeliverBlocks) /\ WF_vars(DeliverRequests)

-----------------------------------------------------------------------------
(* SpecSync: the late miner donald, initialised on the genesis block, is sent *)
(* the chain that minnie holds, in any order; minnie answers his requests for *)
(* missing blocks, so that blocks reach him more than once.                   *)

InitSync ==
    /\ chain \in Chains
    /\ cl = [p \in {"donald", "minnie"} |->
               IF p = "donald" THEN initialize(newClient("miner", p, makeGenesis))
               ELSE inOrder(newClient("miner", p, makeGenesis), chain)]
    /\ registered = {"donald", "minnie"}
    /\ net = {[from |-> "minnie", to |-> "donald", msg |-> PROOF_FOUND, o |-> toJSON(chain[i])] :
                 i \in 1..Len(chain)}
    /\ sealed = {}
    /\ ev = NoEvent
    /\ asked = EmptyMap
    /\ timers = <<>>

SpecSync == InitSync /\ [][NextRecv]_vars

\* receiveBlock(o) called on state s of a participant; what it returns and leaves
Delivered(s, o) == receiveBlock([s |-> s, out |-> <<>>, regs |-> registered], o)

\* a second delivery of o to state s leaves s as it is and sends nothing
NoEffect(s, o) ==
    /\ Delivered(s, o).c.s = s
    /\ Delivered(s, o).c.out = <<>>

\* a second delivery of o to state s only files the block once more under its missing parent
BufferedAgain(s, o) ==
    /\ MapHas(s.pendingBlocks, o.prevBlockHash)
    /\ Delivered(s, o).c.s =
          [s EXCEPT !.pendingBlocks[o.prevBlockHash] = Append(@, deserializeBlock(o))]
    /\ Delivered(s, o).c.out = <<>>

\* a block whose id is in the store is ignored: null, no message, no change of state
DuplicateIgnored ==
    (ev.op = "receiveBlock" /\ MapHas(ev.pre.blocks, hashVal(deserializeBlock(ev.o))))
      => /\ ev.ret = NoBlock
         /\ ev.out = <<>>
         /\ cl[ev.who] = ev.pre

C18_ProvideMissingBlock ==
    ev.op = "provideMissingBlock" =>
        /\ cl[ev.who] = ev.pre
        /\ IF MapHas(ev.pre.blocks, ev.o.missing)
           THEN /\ Len(ev.out) = 1
                /\ ev.out[1].msg = PROOF_FOUND
                /\ ev.out[1].to = {ev.o.from}
                /\ ev.out[1].o = toJSON(ev.pre.blocks[ev.o.missing])
                /\ hash(ev.out[1].o) = ev.o.missing
                /\ Sent(ev.out) = {[from |-> ev.who, to |-> ev.o.from, msg |-> PROOF_FOUND,
                                     o |-> ev.out[1].o]}
           ELSE ev.out = <<>>

\* minnie answers donald's request for a block that she holds and he does not
C18_Witness ==
    /\ ev.op = "provideMissingBlock" /\ ev.who = "minnie"
    /\ ev.o.from = "donald"
    /\ MapHas(ev.pre.blocks, ev.o.missing)
    /\ ~MapHas(cl["donald"].blocks, ev.o.missing)
    /\ \E m \in net : m.to = "donald" /\ m.msg = PROOF_FOUND /\ hash(m.o) = ev.o.missing

-----------------------------------------------------------------------------
(* SpecFork: alice has posted T1 and T2, which stay pending, and is sent the  *)
(* blocks of two branches in any order: minnie's B1..B4, with T1 in B1 and T2 *)
(* in B3, and donald's D1..D3, with T1 in D2.                                 *)

D3 == mined(Block("donald", D2))

\* alice after postTransaction of 40 to bob, twice, with no miner listening
Posted(s) ==
    postTransaction([s |-> s, out |-> <<>>, regs |-> {}],
                    <<[amount |-> 40, address |-> "bob"]>>, DEFAULT_TX_FEE).c.s

InitFork ==
    /\ chain = <<>>
    /\ cl = [p \in {"alice"} |-> Posted(Posted(newClient("client", p, makeGenesis)))]
    /\ registered = {"alice"}
    /\ net = {[from |-> "minnie", to |-> "alice", msg |-> PROOF_FOUND, o |-> toJSON(b)] :
                 b \in {B1, B2, B3, B4, D1, D2, D3}}
    /\ sealed = {}
    /\ ev = NoEvent
    /\ asked = EmptyMap
    /\ timers = <<>>

SpecFork == InitFork /\ [][NextRecv]_vars

-----------------------------------------------------------------------------
(* SpecPost: alice posts transactions of several sizes, also sizes she cannot  *)
(* pay; minnie, the registered miner, is handed them.  No block is mined, so   *)
(* every posted transaction stays pending.                                     *)

MaxPosts == 3

PostOutputs ==
    {<<[amount |-> a, address |-> "bob"]>> : a \in {40, 192, 232}}
      \cup {<<[amount |-> 40, address |-> "bob"], [amount |-> 60, address |-> "donald"]>>}
PostFees == {0, DEFAULT_TX_FEE}

NextPost ==
    \/ /\ cl["alice"].nonce < MaxPosts
       /\ \E outputs \in PostOutputs, fee \in PostFees : Post("alice", outputs, fee)
       /\ UNCHANGED <<chain, registered, sealed>>
    \/ DeliverTxs

SpecPost == InitNet /\ [][NextPost]_vars

-----------------------------------------------------------------------------
(* SpecMine: the driver's transfer.  alice pays bob 40 gold, up to twice;      *)
(* minnie, the only miner, searches in chunks of miningRounds proofs and       *)
(* mines up to MaxMined blocks.  Messages arrive in any order.     *)

MaxTransfers == 2
MiningRounds == {1, 2, NUM_ROUNDS_MINING}

\* new Miner({name, net, startingBlock, miningRounds}); initialize()
newMiner(address, startingBlock, miningRounds) ==
    initialize([newClient("miner", address, startingBlock) EXCEPT !.miningRounds = miningRounds])

InitMine ==
    /\ chain = <<>>
    /\ \E rounds \in MiningRounds :
          cl = [p \in {"alice", "minnie"} |->
                  IF p = "minnie" THEN newMiner(p, makeGenesis, rounds)
                  ELSE newClient("client", p, makeGenesis)]
    /\ registered = {"alice", "minnie"}
    /\ net = {}
    /\ sealed = {}
    /\ ev = NoEvent
    /\ asked = EmptyMap
    /\ timers = <<>>

\* alice.postTransaction([{amount: 40, address: bob}])
Transfer ==
    /\ cl["alice"].nonce < MaxTransfers
    /\ Post("alice", <<[amount |-> 40, address |-> "bob"]>>, DEFAULT_TX_FEE)
    /\ UNCHANGED <<chain, registered, sealed>>

Mine == FindProof("minnie")

NextMine ==
    \/ Transfer
    \/ Mine
    \/ DeliverBlocks
    \/ DeliverRequests
    \/ DeliverTxs

SpecMine == InitMine /\ [][NextMine]_vars

\* findProof ends with setTimeout(emit START_MINING) and FakeNet hands every message to
\* setTimeout, so the search and every delivery are eventually run
SpecMineFair ==
    SpecMine /\ WF_vars(Mine) /\ WF_vars(DeliverBlocks) /\ WF_vars(DeliverRequests)
             /\ WF_vars(DeliverTxs)

-----------------------------------------------------------------------------
(* SpecTransfer: the driver's transfer on a longer chain.  alice has posted   *)
(* T1; minnie, the only miner, has been handed T1 while searching for her     *)
(* k-th block and has mined MaxLength blocks.  Her announcements have reached *)
(* herself, who ignores them, and reach alice in any order.                   *)

MaxLength == 4

\* minnie's findProof run n times, T1 arriving before the k-th run
RECURSIVE mineTransfer(_, _, _)
mineTransfer(c, n, k) ==
    IF n = 0 THEN c
    ELSE mineTransfer(findProof(IF k = 1 THEN [c EXCEPT !.s = minerAddTransaction(@, txJSON(T1))]
                                ELSE c).c,
                      n - 1, k - 1)

Mined(k) ==
    mineTransfer([s |-> newMiner("minnie", makeGenesis, NUM_ROUNDS_MINING), out |-> <<>>,
                  regs |-> {"alice", "minnie"}], MaxLength, k)

InitTransfer ==
    /\ chain = <<>>
    /\ \E k \in 1..(MaxLength - 1) :
          /\ cl = [p \in {"alice", "minnie"} |->
                     IF p = "minnie" THEN Mined(k).s
                     ELSE Posted(newClient("client", p, makeGenesis))]
          /\ net = {m \in Sent(Mined(k).out) : m.to = "alice"}
    /\ registered = {"alice", "minnie"}
    /\ sealed = {}
    /\ ev = NoEvent
    /\ asked = EmptyMap
    /\ timers = <<>>

SpecTransfer == InitTransfer /\ [][NextRecv]_vars

-----------------------------------------------------------------------------
(* SpecSign: utils.sign and utils.verifySignature.  A message is signed with   *)
(* the private key of one of three key pairs, and the signature is verified    *)
(* against any message and any of the public keys.                             *)

KeyOwners == {"alice", "bob", "minnie"}

\* JavaScript values passed as msg: numbers, strings, objects {a: n}, and a transaction id
Messages ==
    {[js |-> "number", n |-> n] : n \in {1, 12}}
      \cup {[js |-> "string", s |-> t] : t \in {"hello", "goodbye", "1", "12", "{\"a\":1}"}}
      \cup {[js |-> "object", a |-> n] : n \in {1, 12}}
      \cup {txId(T1)}

\* sig = utils.sign(kp.private, m)
Sign(k, m) ==
    /\ ev' = [op |-> "sign", k |-> k, m |-> m, sig |-> sign(keyPair(k).private, m)]
    /\ UNCHANGED <<chain, cl, net, registered, sealed, asked, timers>>

\* utils.verifySignature(pubKey, msg, sig) of the signature made last
Verify(k, msg) ==
    /\ ev.op \in {"sign", "verifySignature"}
    /\ ev' = [op |-> "verifySignature", k |-> ev.k, m |-> ev.m, sig |-> ev.sig,
              pubKey |-> keyPair(k).public, msg |-> msg,
              ret |-> verifySignature(keyPair(k).public, msg, ev.sig)]
    /\ UNCHANGED <<chain, cl, net, registered, sealed, asked, timers>>

NextSign ==
    \/ \E k \in KeyOwners, m \in Messages : Sign(k, m)
    \/ \E k \in KeyOwners, msg \in Messages : Verify(k, msg)

SpecSign == InitBlock /\ [][NextSign]_vars

-----------------------------------------------------------------------------
(* SpecGenesis: alice is constructed without a starting block and minnie, a   *)
(* miner, with the genesis block.  setGenesisBlock is called on either, at any *)
(* time, with either of two genesis blocks; alice is registered once she has  *)
(* a chain, minnie mines, and blocks and requests are delivered.              *)

GenesisBlocks == {makeGenesis, deserializeBlock(OtherGenesis)}

InitGenesis ==
    /\ chain = <<>>
    /\ cl = [p \in {"alice", "minnie"} |->
               IF p = "minnie" THEN newMiner(p, makeGenesis, NUM_ROUNDS_MINING)
               ELSE newClient("client", p, NoBlock)]
    /\ registered = {"minnie"}
    /\ net = {}
    /\ sealed = {}
    /\ ev = NoEvent
    /\ asked = EmptyMap
    /\ timers = <<>>

\* p.setGenesisBlock(g)
SetGenesis(p, g) ==
    /\ \E r \in {setGenesisBlock(cl[p], g)} :
          CalledRet(p, "setGenesisBlock", g, [s |-> r.s, out |-> <<>>, regs |-> registered], r.ret)
    /\ UNCHANGED <<chain, registered, sealed>>

\* fakeNet.register(alice), which the driver calls after makeGenesis
RegisterClient ==
    /\ "alice" \notin registered
    /\ cl["alice"].lastBlock # NoBlock
    /\ registered' = registered \cup {"alice"}
    /\ ev' = [op |-> "register", who |-> "alice"]
    /\ UNCHANGED <<chain, cl, net, sealed, asked, timers>>

NextGenesis ==
    \/ \E p \in {"alice", "minnie"}, g \in GenesisBlocks : SetGenesis(p, g)
    \/ RegisterClient
    \/ Mine
    \/ DeliverBlocks
    \/ DeliverRequests

SpecGenesis == InitGenesis /\ [][NextGenesis]_vars

-----------------------------------------------------------------------------
(* SpecTick: the event loop with the driver's FakeNet, which delays nothing.  *)
(* Every message and every START_MINING is a setTimeout(.., 0) callback, and  *)
(* the callbacks run one at a time in the order they were set.  minnie, who   *)
(* tries miningRounds proofs per call, mines from the start; alice pays bob;  *)
(* donald registers late.                                                     *)

START_MINING == "START_MINING"

\* the blocks that are found in a run
MaxFound == 3

\* FakeNet.clients is a Map: broadcast sends in the order of registration
RegistrationOrder == <<"alice", "minnie", "donald">>

sendOrder(to) == SelectSeq(RegistrationOrder, LAMBDA a : a \in to)

\* the callbacks that FakeNet.sendMessage sets for the messages of out, in the order set
RECURSIVE queued(_)
queued(out) ==
    IF out = <<>> THEN <<>>
    ELSE [i \in 1..Len(sendOrder(Head(out).to)) |->
            [from |-> Head(out).from, to |-> sendOrder(Head(out).to)[i],
             msg |-> Head(out).msg, o |-> Head(out).o]]
         \o queued(Tail(out))

startMining(p) == [from |-> p, to |-> p, msg |-> START_MINING, o |-> NoBlock]

\* a re-arm that runs before everything that is queued
rearmAhead(q, p) == <<startMining(p)>> \o q

\* "setTimeout(() => this.emit(Miner.START_MINING), 0)" with q the callbacks set so far
rearm(q, p) == Append(q, startMining(p))

\* the end of Miner.initialize: emit(START_MINING) runs findProof at once
startMiner(c) == findProof([c EXCEPT !.s = initialize(@)])

\* a callback or a call of the driver on p has returned c and left q in the timer queue
Ran(p, op, o, c, ret, q) ==
    /\ cl' = [cl EXCEPT ![p] = c.s]
    /\ ev' = [op |-> op, who |-> p, o |-> o, pre |-> cl[p], ret |-> ret, out |-> c.out]
    /\ asked' = askedAfter(asked, c.out)
    /\ timers' = q
    /\ UNCHANGED <<chain, net>>

\* what the proofs found in a findProof call add to the blocks built
sealedBy(r, block, regs) ==
    IF r.found THEN sealed \cup {Sealed(searchProof(block), regs)} ELSE sealed

InitTick ==
    /\ chain = <<>>
    /\ registered = {"alice", "minnie"}
    /\ \E rounds \in MiningRounds :
        \E r \in {startMiner([s |-> [newClient("miner", "minnie", makeGenesis)
                                        EXCEPT !.miningRounds = rounds],
                              out |-> <<>>, regs |-> {"alice", "minnie"}])} :
          /\ cl = [p \in Participants |->
                     IF p = "minnie" THEN r.c.s
                     ELSE IF p = "alice" THEN newClient("client", p, makeGenesis)
                     ELSE [newClient("miner", p, makeGenesis) EXCEPT !.miningRounds = rounds]]
          /\ timers = rearm(queued(r.c.out), "minnie")
          /\ sealed = IF r.found
                      THEN {Sealed(mined(Block("minnie", makeGenesis)), {"alice", "minnie"})}
                      ELSE {}
    /\ net = {}
    /\ ev = NoEvent
    /\ asked = EmptyMap

\* alice.postTransaction([{amount: 40, address: bob}]), called between two callbacks
TransferTick ==
    /\ cl["alice"].nonce < MaxPost
    /\ \E r \in {postTransaction(ctx("alice"), <<[amount |-> 40, address |-> "bob"]>>,
                                  DEFAULT_TX_FEE)} :
          Ran("alice", "postTransaction", NoBlock, r.c, r.ret, timers \o queued(r.c.out))
    /\ UNCHANGED <<registered, sealed>>

\* fakeNet.register(donald); donald.initialize(), in a callback of the driver
RegisterTick ==
    /\ "donald" \notin registered
    /\ Cardinality(sealed) < MaxFound
    /\ registered' = registered \cup {"donald"}
    /\ \E r \in {startMiner([s |-> cl["donald"], out |-> <<>>, regs |-> registered'])} :
          /\ Ran("donald", "initialize", NoBlock, r.c, [found |-> r.found, checks |-> r.checks],
                 rearm(timers \o queued(r.c.out), "donald"))
          /\ sealed' = sealedBy(r, initialize(cl["donald"]).currentBlock, registered')

\* the callback at the head of the queue emits START_MINING: findProof
TickMine ==
    /\ timers # <<>> /\ Head(timers).msg = START_MINING
    /\ Cardinality(sealed) < MaxFound
    /\ \E r \in {findProof(ctx(Head(timers).to))} :
          /\ Ran(Head(timers).to, "findProof", NoBlock, r.c,
                 [found |-> r.found, checks |-> r.checks],
                 rearm(Tail(timers) \o queued(r.c.out), Head(timers).to))
          /\ sealed' = sealedBy(r, cl[Head(timers).to].currentBlock, registered)
    /\ UNCHANGED registered

\* the callback at the head of the queue emits PROOF_FOUND: receiveBlock
TickBlock ==
    /\ timers # <<>> /\ Head(timers).msg = PROOF_FOUND
    /\ \E r \in {receiveBlock(ctx(Head(timers).to), Head(timers).o)} :
          Ran(Head(timers).to, "receiveBlock", Head(timers).o, r.c, r.ret,
              Tail(timers) \o queued(r.c.out))
    /\ UNCHANGED <<registered, sealed>>

\* the callback at the head of the queue emits MISSING_BLOCK: provideMissingBlock
TickMissing ==
    /\ timers # <<>> /\ Head(timers).msg = MISSING_BLOCK
    /\ \E c \in {provideMissingBlock(ctx(Head(timers).to), Head(timers).o)} :
          Ran(Head(timers).to, "provideMissingBlock", Head(timers).o, c, NoBlock,
              Tail(timers) \o queued(c.out))
    /\ UNCHANGED <<registered, sealed>>

\* the callback at the head of the queue emits POST_TRANSACTION: Miner.addTransaction
TickTx ==
    /\ timers # <<>> /\ Head(timers).msg = POST_TRANSACTION
    /\ Ran(Head(timers).to, "addTransaction", Head(timers).o,
           [ctx(Head(timers).to) EXCEPT !.s = minerAddTransaction(@, Head(timers).o)], NoBlock,
           Tail(timers))
    /\ UNCHANGED <<registered, sealed>>

NextTick ==
    \/ TransferTick
    \/ RegisterTick
    \/ TickMine
    \/ TickBlock
    \/ TickMissing
    \/ TickTx

SpecTick == InitTick /\ [][NextTick]_vars

\* the positions in the timer queue of the deferred START_MINING of miner p
rearmsOf(p) == {i \in DOMAIN timers : timers[i] = startMining(p)}

\* C31: every findProof call (the first, run by initialize, included) leaves exactly one
\* deferred START_MINING for its miner, and leaves it behind every callback that is queued at
\* that moment, so the messages queued for the miner are handled before the next batch; an
\* initialised miner has exactly one search loop outstanding between any two callbacks.
C31_OneRearmBehindTheQueue ==
    /\ \A p \in Miners \cap registered : Cardinality(rearmsOf(p)) = 1
    /\ ev.op \in {"findProof", "initialize"} =>
          /\ timers # <<>>
          /\ timers[Len(timers)] = startMining(ev.who)

\* minnie's findProof has returned while her own block and donald's are still queued for her
C31_Witness ==
    /\ ev.op = "findProof" /\ ev.who = "minnie"
    /\ \E i \in 1..(Len(timers) - 1) : timers[i].to = "minnie" /\ timers[i].msg = PROOF_FOUND
    /\ "donald" \in registered

\* o2 = JSON.parse(JSON.stringify(o)): plain data, no Block and no Transaction object
plainData(o) ==
    /\ ~isBlockInstance(o)
    /\ "transactions" \in DOMAIN o =>
          \A i \in 1..Len(o.transactions) : "obj" \notin DOMAIN o.transactions[i].tx

\* a callback took the head of the queue (k = 1) or the driver made a call (k = 0); the
\* callbacks that wait keep their payloads
queueKept(k) ==
    /\ Len(timers') >= Len(timers) - k
    /\ \A i \in 1..(Len(timers) - k) : timers'[i] = timers[i + k]

-----------------------------------------------------------------------------
(* SpecCut: the initialised miner donald is sent, in any order, the blocks of *)
(* two branches on the genesis block and alice's two transactions:           *)
(*   E1 (T1) - E2 (T2);   D1 - G2 - G3                                        *)

E1 == mined(addTransaction(Block("minnie", makeGenesis), T1).b)
E2 == mined(addTransaction(Block("minnie", E1), T2).b)
G2 == mined(Block("minnie", D1))
G3 == mined(Block("minnie", G2))

InitCut ==
    /\ chain = <<>>
    /\ cl = [p \in {"donald"} |-> initialize(newClient("miner", p, makeGenesis))]
    /\ registered = {"donald"}
    /\ net = {[from |-> "minnie", to |-> "donald", msg |-> PROOF_FOUND, o |-> toJSON(b)] :
                 b \in {E1, E2, D1, G2, G3}}
             \cup {[from |-> "alice", to |-> "donald", msg |-> POST_TRANSACTION, o |-> txJSON(tx)] :
                      tx \in {T1, T2}}
    /\ sealed = {}
    /\ ev = NoEvent
    /\ asked = EmptyMap
    /\ timers = <<>>

NextCut ==
    \/ DeliverBlocks
    \/ DeliverRequests
    \/ DeliverTxs

SpecCut == InitCut /\ [][NextCut]_vars

\* the blocks from block back to the first one whose parent s does not hold
RECURSIVE branchOf(_, _)
branchOf(s, block) ==
    {block} \cup (IF MapHas(s.blocks, block.prevBlockHash)
                  THEN branchOf(s, s.blocks[block.prevBlockHash]) ELSE {})

\* the blocks of branch a that are not on branch b
notOn(a, b) == {x \in a : hashVal(x) \notin {hashVal(y) : y \in b}}

\* the ids of the transactions in the blocks bs
idsIn(bs) == UNION {{txId(b.transactions[i].tx) : i \in 1..Len(b.transactions)} : b \in bs}

\* what "let b = super.receiveBlock(s)" gave in the receiveBlock call just made
superReceived == clientReceiveBlock([s |-> ev.pre, out |-> <<>>, regs |-> registered], ev.o)

\* the receiveBlock call just made by a miner went on to syncTransactions(b)
CutOver ==
    /\ ev.op = "receiveBlock" /\ ev.pre.kind = "miner"
    /\ superReceived.ret # NoBlock
    /\ superReceived.c.s.currentBlock # NoBlock
    /\ superReceived.ret.chainLength >= superReceived.c.s.currentBlock.chainLength

abandonedBlocks(s, nb) == notOn(branchOf(s, s.currentBlock), branchOf(s, nb))
adoptedBlocks(s, nb) == notOn(branchOf(s, nb), branchOf(s, s.currentBlock))

syncedIds(s, nb) ==
    {txId(syncTransactions(s, nb)[i]) : i \in 1..Len(syncTransactions(s, nb))}

\* C32: syncTransactions(newHead) returns, compared by id, the transactions of the abandoned
\* current block and of the old branch back to the common ancestor, minus the transactions
\* of newHead's branch back to that ancestor.
C32_SyncResult ==
    CutOver =>
        syncedIds(superReceived.c.s, superReceived.ret)
          = idsIn(abandonedBlocks(superReceived.c.s, superReceived.ret))
              \ idsIn(adoptedBlocks(superReceived.c.s, superReceived.ret))

\* the initialised miners
Mining == {p \in DOMAIN cl : cl[p].kind = "miner" /\ cl[p].currentBlock # NoBlock}

txsIn(bs) == UNION {{b.transactions[i].tx : i \in 1..Len(b.transactions)} : b \in bs}

\* the transactions given up with the old branch that the branch of nb does not hold
givenUp(s, nb) ==
    {tx \in txsIn(abandonedBlocks(s, nb)) : txId(tx) \notin idsIn(branchOf(s, nb))}

\* the transactions txs, lowest nonce first
RECURSIVE byNonce(_)
byNonce(txs) ==
    IF txs = {} THEN <<>>
    ELSE WithValue(CHOOSE tx \in txs : \A other \in txs : tx.nonce <= other.nonce,
                   LAMBDA tx : <<tx>> \o byNonce({t \in txs : txId(t) # txId(tx)}))

\* the ids of the given-up transactions that a block on head takes in nonce order
acceptedOn(s, head, nb) ==
    idsIn({addAll(Block(s.address, head), byNonce(givenUp(s, nb)))})

\* C36: after a cut-over the miner's new current block holds every transaction of the
\* abandoned current block and branch that is not on the new head's chain and that a block
\* on the new head accepts when the transactions are applied in nonce order.
C36_NoTransactionLost ==
    CutOver =>
        acceptedOn(superReceived.c.s, cl[ev.who].lastBlock, superReceived.ret)
          \subseteq idsIn({cl[ev.who].currentBlock})

-----------------------------------------------------------------------------
(* SpecJump: alice is sent minnie's chain B1 - B2 - B3 and two blocks on the    *)
(* genesis block whose payloads state a chainLength of 3 and of 4               *)

FarJump == toJSON(mined([Block("donald", makeGenesis) EXCEPT !.chainLength = 4]))

InitJump ==
    /\ chain = <<>>
    /\ cl = [p \in {"alice"} |-> newClient("client", p, makeGenesis)]
    /\ registered = {"alice"}
    /\ net = {[from |-> "minnie", to |-> "alice", msg |-> PROOF_FOUND, o |-> o] :
                 o \in {toJSON(B1), toJSON(B2), toJSON(B3), LongJump, FarJump}}
    /\ sealed = {}
    /\ ev = NoEvent
    /\ asked = EmptyMap
    /\ timers = <<>>

SpecJump == InitJump /\ [][NextRecv]_vars

\* C37: a participant's lastBlock.chainLength and lastConfirmedBlock.chainLength never
\* decrease, and lastBlock changes only to a block of strictly greater chainLength.
C37_HeadNeverRegresses ==
    [][\A p \in DOMAIN cl :
         /\ cl'[p].lastBlock.chainLength >= cl[p].lastBlock.chainLength
         /\ cl'[p].lastConfirmedBlock.chainLength >= cl[p].lastConfirmedBlock.chainLength
         /\ cl'[p].lastBlock # cl[p].lastBlock =>
               cl'[p].lastBlock.chainLength > cl[p].lastBlock.chainLength]_vars

\* C38: every stored block other than the genesis block the participant was created with has
\* its parent in the same store; no second block without a parent is ever stored.
C38_AncestorClosedStore ==
    \A p \in DOMAIN cl : \A k \in DOMAIN cl[p].blocks :
        k = hashVal(makeGenesis) \/ MapHas(cl[p].blocks, cl[p].blocks[k].prevBlockHash)

\* the fees of the transactions of block
feesOf(block) == SumSeq([i \in 1..Len(block.transactions) |-> block.transactions[i].tx.fee])

\* C39: the balances of every stored block of chainLength n >= 1 add up to the genesis
\* balances plus the coinbase reward times (n - 1) minus the fees of the block's own
\* transactions.
C39_MoneySupply ==
    \A p \in DOMAIN cl : \A k \in DOMAIN cl[p].blocks :
        cl[p].blocks[k].chainLength >= 1 =>
            SumMap(cl[p].blocks[k].balances)
              = SumMap(makeGenesis.balances)
                  + COINBASE_AMT_ALLOWED * (cl[p].blocks[k].chainLength - 1)
                  - feesOf(cl[p].blocks[k])

-----------------------------------------------------------------------------
(* SpecSpend: alice has posted P1, which pays 200 of her 233 to bob, and is    *)
(* sent two branches in any order:  H1 (P1) - H2 - H3 - H4;  D1 - D2 - D3      *)

P1 == makeTransaction("alice", 0, <<[amount |-> 200, address |-> "bob"]>>, DEFAULT_TX_FEE)
H1 == mined(addTransaction(Block("minnie", makeGenesis), P1).b)
H2 == mined(Block("minnie", H1))
H3 == mined(Block("minnie", H2))
H4 == mined(Block("minnie", H3))

InitSpend ==
    /\ chain = <<>>
    /\ cl = [p \in {"alice"} |->
               postTransaction([s |-> newClient("client", p, makeGenesis), out |-> <<>>, regs |-> {}],
                               <<[amount |-> 200, address |-> "bob"]>>, DEFAULT_TX_FEE).c.s]
    /\ registered = {"alice"}
    /\ net = {[from |-> "minnie", to |-> "alice", msg |-> PROOF_FOUND, o |-> toJSON(b)] :
                 b \in {H1, H2, H3, H4, D1, D2, D3}}
    /\ sealed = {}
    /\ ev = NoEvent
    /\ asked = EmptyMap
    /\ timers = <<>>

SpecSpend == InitSpend /\ [][NextRecv]_vars

\* C40: a client's availableGold is never negative: its pending outgoing transactions never
\* add up to more than its confirmed balance, and no transfer is counted against it both in
\* the confirmed balance and as pending.
C40_NoOverCommitment ==
    \A p \in DOMAIN cl : availableGold(cl[p]) >= 0

\* the blocks that s has stored
storedIds(s) == DOMAIN s.blocks

\* C34: every block in a participant's store is stored under its id, and once stored it is
\* never changed: not by the miner adding transactions to its current block, by finding a
\* proof, by cutting over, or by the blocks received later.
C34_SealedBlocksImmutable ==
    /\ [](\A p \in DOMAIN cl : \A k \in storedIds(cl[p]) : hashVal(cl[p].blocks[k]) = k)
    /\ [][\A p \in DOMAIN cl : \A k \in storedIds(cl[p]) :
            k \in storedIds(cl'[p]) /\ cl'[p].blocks[k] = cl[p].blocks[k]]_vars

\* minnie has stored a block that she found, holding a transaction, and has since taken
\* another transaction into her current block
C34_Witness ==
    /\ ev.op = "addTransaction" /\ ev.who = "minnie"
    /\ Len(cl["minnie"].currentBlock.transactions) > 0
    /\ \E k \in storedIds(cl["minnie"]) :
          /\ cl["minnie"].blocks[k].rewardAddr = "minnie"
          /\ Len(cl["minnie"].blocks[k].transactions) > 0


\* fee + the sum of the output amounts of a postTransaction call
Payment(o) == o.fee + SumSeq([i \in 1..Len(o.outputs) |-> o.outputs[i].amount])

\* the confirmed balance of s minus the total output of its pending transactions
Available(s) ==
    balanceOf(s.lastConfirmedBlock, s.address)
      - SumSeq([i \in 1..Len(s.pendingOutgoingTransactions) |->
                   Payment(s.pendingOutgoingTransactions[i].tx)])

\* C21: when fee + the sum of the output amounts exceeds availableGold, postTransaction
\* throws, broadcasts nothing and leaves the client's nonce and
\* pendingOutgoingTransactions (and every other field) unchanged.
C21_InsufficientFunds ==
    (ev.op = "postTransaction" /\ Payment(ev.o) > Available(ev.pre))
      => /\ ev.ret = Thrown
         /\ ev.out = <<>>
         /\ cl[ev.who] = ev.pre

\* a payment that the confirmed balance covers is refused because of pending transactions
C21_Witness ==
    /\ ev.op = "postTransaction" /\ ev.ret = Thrown
    /\ ev.pre.pendingOutgoingTransactions # <<>>
    /\ Payment(ev.o) <= balanceOf(ev.pre.lastConfirmedBlock, "alice")
    /\ Payment(ev.o) = Available(ev.pre) + 1
    /\ cl["alice"].nonce = ev.pre.nonce

\* C22: a successful postTransaction creates one signed transaction with from = the
\* client's address and nonce = the client's nonce, adds it to
\* pendingOutgoingTransactions, increments the nonce by 1, lowers availableGold by the
\* transaction's total output and broadcasts one POST_TRANSACTION; the k-th transaction
\* posted has nonce k-1 and no two posted transactions share a nonce.
C22_PostSuccess ==
    /\ (ev.op = "postTransaction" /\ ev.ret # Thrown) =>
          /\ ev.ret.from = ev.who /\ ev.ret.nonce = ev.pre.nonce
          /\ ev.ret.outputs = ev.o.outputs /\ ev.ret.fee = ev.o.fee
          /\ validSignature(ev.ret)
          /\ cl[ev.who] =
                [ev.pre EXCEPT !.nonce = @ + 1,
                               !.pendingOutgoingTransactions =
                                   Append(@, [id |-> txId(ev.ret), tx |-> ev.ret])]
          /\ ~EntryHas(ev.pre.pendingOutgoingTransactions, txId(ev.ret))
          /\ Available(cl[ev.who]) = Available(ev.pre) - Payment(ev.o)
          /\ Len(ev.out) = 1
          /\ ev.out[1].msg = POST_TRANSACTION
          /\ ev.out[1].o = txJSON(ev.ret)
    /\ \A i \in 1..Len(cl["alice"].pendingOutgoingTransactions) :
          cl["alice"].pendingOutgoingTransactions[i].tx.nonce = i - 1

\* the third transaction is posted, with nonce 2, while the first two are pending
C22_Witness ==
    /\ ev.op = "postTransaction" /\ ev.ret # Thrown
    /\ ev.ret.nonce = 2
    /\ Len(cl["alice"].pendingOutgoingTransactions) = 3
    /\ Available(cl["alice"]) = Available(ev.pre) - Payment(ev.o)
    /\ \E m \in net : m.to = "minnie" /\ m.msg = POST_TRANSACTION /\ m.o = txJSON(ev.ret)

-----------------------------------------------------------------------------
(* Properties of SpecNet *)

\* the transactions of the stored ancestors of b and of b, oldest first
RECURSIVE TxsUpTo(_, _)
TxsUpTo(store, b) ==
    IF isGenesisBlock(b) \/ ~MapHas(store, b.prevBlockHash) THEN b.transactions
    ELSE TxsUpTo(store, store[b.prevBlockHash]) \o b.transactions

NoTxTwice(es) == \A i, j \in 1..Len(es) : es[i].id = es[j].id => i = j

\* what the distinct transactions of sender a among es take from a
DebitOf(es, a) ==
    SumMap([t \in {txJSON(es[i].tx) : i \in {j \in 1..Len(es) : es[j].tx.from = a}} |->
               totalOutput(t)])

\* C3: along the chain of every block a participant has accepted no transaction is included
\* twice, and alice (who is paid by nobody) has been debited once for each of her included
\* transactions, however often they were sent to the miners again.
C3_NoReplay ==
    \A p \in DOMAIN cl : \A id \in DOMAIN cl[p].blocks :
        /\ NoTxTwice(TxsUpTo(cl[p].blocks, cl[p].blocks[id]))
        /\ balanceOf(cl[p].blocks[id], "alice") =
              StartingBalances["alice"]
                - DebitOf(TxsUpTo(cl[p].blocks, cl[p].blocks[id]), "alice")

\* a transaction already included in a stored ancestor is delivered to the miner again,
\* and the block under construction on top of that ancestor does not take it
C3_Witness ==
    /\ ev.op = "addTransaction"
    /\ ev.pre.currentBlock.chainLength = 2
    /\ EntryHas(TxsUpTo(ev.pre.blocks, ev.pre.lastBlock), txId(ev.o))
    /\ cl[ev.who].currentBlock.transactions = <<>>

\* C6: a block accepted by two participants has the same balances and nextNonce maps in
\* both stores, and they are the maps its miner had built (constructor on the parent plus
\* addTransaction calls) when it found the proof.
C6_ReplicaConsistency ==
    \A p \in DOMAIN cl : \A id \in DOMAIN cl[p].blocks :
        ~isGenesisBlock(cl[p].blocks[id]) =>
            /\ \A q \in DOMAIN cl :
                  MapHas(cl[q].blocks, id) =>
                      /\ cl[q].blocks[id].balances = cl[p].blocks[id].balances
                      /\ cl[q].blocks[id].nextNonce = cl[p].blocks[id].nextNonce
            /\ \E x \in sealed :
                  /\ x.id = id
                  /\ x.balances = cl[p].blocks[id].balances
                  /\ x.nextNonce = cl[p].blocks[id].nextNonce

\* alice and minnie both store a block of chain length 2 whose chain includes a transaction
C6_Witness ==
    \E id \in DOMAIN cl["alice"].blocks \cap DOMAIN cl["minnie"].blocks :
        /\ cl["alice"].blocks[id].chainLength = 2
        /\ TxsUpTo(cl["alice"].blocks, cl["alice"].blocks[id]) # <<>>
        /\ balanceOf(cl["alice"].blocks[id], "minnie") > StartingBalances["minnie"]

\* C20: whenever receiveBlock has returned, no transaction of a participant's
\* pendingOutgoingTransactions is contained in lastConfirmedBlock or in an ancestor of
\* lastConfirmedBlock, also after the head has switched to another branch.
C20_ConfirmedNotPending ==
    \A p \in DOMAIN cl :
        \A i \in 1..Len(cl[p].pendingOutgoingTransactions) :
            ~EntryHas(TxsUpTo(cl[p].blocks, cl[p].lastConfirmedBlock),
                      txId(cl[p].pendingOutgoingTransactions[i].tx))

-----------------------------------------------------------------------------
(* Properties of SpecTransfer *)

\* the chain length of the block that holds transaction id on the chain ending in b, 0 if none
RECURSIVE includedAt(_, _, _)
includedAt(store, b, id) ==
    IF \E i \in 1..Len(b.transactions) : b.transactions[i].id = id THEN b.chainLength
    ELSE IF isGenesisBlock(b) \/ ~MapHas(store, b.prevBlockHash) THEN 0
    ELSE includedAt(store, store[b.prevBlockHash], id)

\* where T1 is on the chain that participant p has adopted
TransferAt(p) == includedAt(cl[p].blocks, cl[p].lastBlock, txId(T1))

\* the confirmed balance of address a as participant p sees it, less the genesis balance
ConfirmedGain(p, a) == balanceOf(cl[p].lastConfirmedBlock, a) - balanceOf(makeGenesis, a)

\* C23 as stated: once the block that includes alice's transfer to bob of 40 with fee 1 has
\* one more block on top, alice's confirmed balance is her genesis balance minus 41, bob's
\* is his genesis balance plus 40 and the miner's is her genesis balance plus the coinbase
\* reward of some number of blocks plus the fee.
C23_OneBlockOnTop ==
    \A p \in DOMAIN cl :
        (TransferAt(p) > 0 /\ cl[p].lastBlock.chainLength >= TransferAt(p) + 1)
          => /\ ConfirmedGain(p, "alice") = 0 - totalOutput(T1)
             /\ ConfirmedGain(p, "bob") = 40
             /\ \E n \in 0..MaxLength :
                   ConfirmedGain(p, "minnie") = n * COINBASE_AMT_ALLOWED + T1.fee

\* C23 amended: once the including block has CONFIRMED_DEPTH blocks on top it is the
\* confirmed block, and alice's confirmed balance is her genesis balance minus 41 and bob's
\* is his plus 40; the miner's confirmed balance is her genesis balance plus the coinbase
\* reward of every block before the confirmed block, and plus the fee only once the
\* including block has CONFIRMED_DEPTH + 1 blocks on top.
C23_ConfirmedDepthOnTop ==
    \A p \in DOMAIN cl :
        (TransferAt(p) > 0 /\ cl[p].lastBlock.chainLength >= TransferAt(p) + CONFIRMED_DEPTH)
          => /\ cl[p].lastConfirmedBlock.chainLength =
                   cl[p].lastBlock.chainLength - CONFIRMED_DEPTH
             /\ ConfirmedGain(p, "alice") = 0 - totalOutput(T1)
             /\ ConfirmedGain(p, "bob") = 40
             /\ ConfirmedGain(p, "minnie") =
                   (cl[p].lastConfirmedBlock.chainLength - 1) * COINBASE_AMT_ALLOWED
                     + (IF cl[p].lastConfirmedBlock.chainLength > TransferAt(p)
                        THEN T1.fee ELSE 0)

\* alice has adopted four blocks with the transfer in the first: the second is confirmed,
\* and in it the miner has been paid the reward of the first, fee included
C23_Witness ==
    /\ TransferAt("alice") = 1
    /\ cl["alice"].lastBlock.chainLength = 4
    /\ cl["alice"].lastConfirmedBlock.chainLength = 2
    /\ ConfirmedGain("alice", "minnie") = COINBASE_AMT_ALLOWED + T1.fee
    /\ confirmedBalance(cl["alice"]) = 192

-----------------------------------------------------------------------------
(* Properties of SpecMine *)

\* minnie's addTransaction has just turned tx away because its nonce is ahead of nextNonce
OutOfOrder(tx) ==
    /\ ev.op = "addTransaction" /\ ev.who = "minnie" /\ ev.o = txJSON(tx)
    /\ validSignature(Transaction(ev.o, Own))
    /\ sufficientFunds(Transaction(ev.o, Own), ev.pre.currentBlock)
    /\ tx.nonce > (IF MapHas(ev.pre.currentBlock.nextNonce, tx.from)
                   THEN ev.pre.currentBlock.nextNonce[tx.from] ELSE 0)

\* tx is in the block that participant p is mining or in a block that p has stored
InABlock(p, tx) ==
    \/ contains(cl[p].currentBlock, tx)
    \/ \E id \in DOMAIN cl[p].blocks : contains(cl[p].blocks[id], tx)

FoundBlock == searchProof(ev.pre.currentBlock)

\* C25: when findProof finds a valid proof for currentBlock B, that call broadcasts
\* PROOF_FOUND with B exactly once, to every registered participant; B is stored and is the
\* miner's lastBlock; currentBlock is a fresh block on B, with no transactions, chainLength
\* B.chainLength + 1 and proof 0; and no proof is tried after the valid one.
C25_ProofFound ==
    (ev.op = "findProof" /\ ev.ret.found)
      => /\ hasValidProof(FoundBlock)
         /\ ev.out = <<broadcast(registered, ev.who, PROOF_FOUND, toJSON(FoundBlock))>>
         /\ MapHas(cl[ev.who].blocks, hashVal(FoundBlock))
         /\ cl[ev.who].lastBlock = FoundBlock
         /\ cl[ev.who].currentBlock = [Block(ev.who, FoundBlock) EXCEPT !.proof = 0]
         /\ cl[ev.who].currentBlock.prevBlockHash = hashVal(FoundBlock)
         /\ cl[ev.who].currentBlock.chainLength = FoundBlock.chainLength + 1
         /\ cl[ev.who].currentBlock.transactions = <<>>
         /\ ev.ret.checks = FoundBlock.proof - ev.pre.currentBlock.proof + 1

\* minnie, who tries one proof per call, finds in a later call the proof of her second block,
\* which holds a transaction
C25_Witness ==
    /\ ev.op = "findProof" /\ ev.who = "minnie" /\ ev.ret.found
    /\ ev.pre.miningRounds = 1
    /\ ev.pre.currentBlock.proof > 0
    /\ ev.pre.currentBlock.chainLength = 2
    /\ ev.pre.currentBlock.transactions # <<>>
    /\ hashVal(cl["minnie"].lastBlock) = hashVal(FoundBlock)

\* C26: a findProof call evaluates hasValidProof at most miningRounds times and returns.
\* If it finds no proof it has tried exactly miningRounds proofs, currentBlock.proof is
\* miningRounds higher, and nothing else has changed and nothing is sent; if it finds one,
\* the proof of the block it announces is less than miningRounds above where the call began.
C26_ChunkedMining ==
    ev.op = "findProof"
      => /\ ev.ret.checks \in 0..ev.pre.miningRounds
         /\ IF ev.ret.found
            THEN FoundBlock.proof - ev.pre.currentBlock.proof < ev.pre.miningRounds
            ELSE /\ ev.ret.checks = ev.pre.miningRounds
                 /\ cl[ev.who] =
                       [ev.pre EXCEPT !.currentBlock.proof = @ + ev.pre.miningRounds]
                 /\ ev.out = <<>>

\* a call of two rounds ends without a proof, having moved the proof from 0 to 2
C26_Witness ==
    /\ ev.op = "findProof" /\ ~ev.ret.found
    /\ ev.pre.miningRounds = 2
    /\ ev.ret.checks = 2
    /\ ev.pre.currentBlock.proof = 0
    /\ cl["minnie"].currentBlock.proof = 2
    /\ ~hasValidProof([ev.pre.currentBlock EXCEPT !.proof = 1])

-----------------------------------------------------------------------------
(* Block ids in SpecBlock *)

\* block with the fields that toJSON leaves out replaced
Unserialised(block) ==
    IF isGenesisBlock(block) THEN [block EXCEPT !.nextNonce = [a \in {"bob"} |-> 7]]
    ELSE [block EXCEPT !.balances = EmptyMap, !.nextNonce = [a \in {"bob"} |-> 7]]

\* C27: a block's id depends only on its serialised fields: it does not change with the
\* fields left out of the serial form and is kept by deserializeBlock; and serialising a
\* block, deserialising it and running rerun on its parent succeeds and yields a block with
\* the same id and the same transactions, under the same keys, in the same order.
C27_IdStable ==
    /\ \A i \in 1..Len(chain) :
          /\ hashVal(Unserialised(chain[i])) = hashVal(chain[i])
          /\ hashVal(deserializeBlock(toJSON(chain[i]))) = hashVal(chain[i])
    /\ ev.op = "rerun"
         => /\ ev.ok
            /\ hashVal(ev.b) = hashVal(ev.pre)
            /\ toJSON(ev.b).transactions = toJSON(ev.pre).transactions
            /\ \A i \in 1..Len(ev.b.transactions) :
                  ev.b.transactions[i].id = txId(ev.b.transactions[i].tx)

\* a block with two transactions on a parent that has a miner has been serialised,
\* deserialised and rerun
C27_Witness ==
    /\ ev.op = "rerun" /\ ev.ok
    /\ Len(ev.pre.transactions) = 2
    /\ ev.pre.chainLength = 2
    /\ ev.b.transactions # ev.pre.transactions
    /\ ev.b.balances = ev.pre.balances

\* C28: tx.sufficientFunds(block) is true exactly when fee + the sum of the output amounts
\* is at most the balance of tx.from in block, an address without an entry in
\* block.balances counting as balance 0.
C28_SufficientFunds ==
    ev.op = "addTransaction"
      => (sufficientFunds(ev.tx, ev.pre) <=> totalOutput(ev.tx) <= balanceOf(ev.pre, ev.tx.from))

-----------------------------------------------------------------------------
(* Properties of SpecSign *)

\* the signature made with k.private has been verified with k.public
SameKeyPair == ev.op = "verifySignature" /\ ev.pubKey = keyPair(ev.k).public

-----------------------------------------------------------------------------
(* Properties of SpecGenesis *)

\* C30: setGenesisBlock on a client that has a lastBlock throws an error and leaves
\* lastBlock, lastConfirmedBlock, blocks and every other field unchanged; on a client
\* without a chain it sets lastBlock and lastConfirmedBlock to the given block, stores the
\* block in blocks under its id, and changes nothing else.
C30_GenesisSetOnce ==
    ev.op = "setGenesisBlock"
      => /\ ev.out = <<>>
         /\ IF ev.pre.lastBlock # NoBlock
            THEN /\ ev.ret = Thrown
                 /\ cl[ev.who] = ev.pre
            ELSE /\ ev.ret # Thrown
                 /\ cl[ev.who].lastBlock = ev.o
                 /\ cl[ev.who].lastConfirmedBlock = ev.o
                 /\ cl[ev.who].blocks = MapSet(ev.pre.blocks, hashVal(ev.o), ev.o)
                 /\ cl[ev.who] = [ev.pre EXCEPT !.lastBlock = ev.o,
                                                !.lastConfirmedBlock = ev.o,
                                                !.blocks = cl[ev.who].blocks]

\* setGenesisBlock with another genesis block is refused on alice, who has a chain of two
\* blocks on her genesis block
C30_Witness ==
    /\ ev.op = "setGenesisBlock" /\ ev.who = "alice"
    /\ ev.ret = Thrown
    /\ ev.pre.lastBlock.chainLength = 2
    /\ ev.o # makeGenesis
    /\ MapHas(ev.pre.blocks, hashVal(makeGenesis))
    /\ cl["alice"].lastBlock = ev.pre.lastBlock

-----------------------------------------------------------------------------
(* Properties of SpecLate *)

\* donald, holding only the genesis block, has just received a block of chain length k
LateCase(k) ==
    /\ ev.op = "receiveBlock"
    /\ ev.who = "donald"
    /\ DOMAIN ev.pre.blocks = {hashVal(makeGenesis)}
    /\ ev.pre.pendingBlocks = EmptyMap
    /\ ev.o.chainLength = k

\* the largest chain length of a block held by a registered participant
TipLength ==
    CHOOSE n \in 0..(MaxMined + 1) :
        /\ \E p \in registered : \E id \in DOMAIN cl[p].blocks : cl[p].blocks[id].chainLength = n
        /\ \A p \in registered : \A id \in DOMAIN cl[p].blocks : cl[p].blocks[id].chainLength <= n

\* donald has every ancestor, his head is a tip, and his balances are those of his peer
CaughtUp(k) ==
    /\ cl["donald"].pendingBlocks = EmptyMap
    /\ cl["donald"].lastBlock.chainLength >= k
    /\ cl["donald"].lastBlock.chainLength = TipLength
    /\ \A id \in DOMAIN cl["donald"].blocks \cap DOMAIN cl["minnie"].blocks :
          cl["donald"].blocks[id].balances = cl["minnie"].blocks[id].balances
    /\ \E id \in DOMAIN cl["donald"].blocks \cap DOMAIN cl["minnie"].blocks :
          cl["donald"].blocks[id].chainLength = k

\* the request receiveBlock sends for the parent of the block it buffers
RequestFor(o) ==
    [from |-> "donald", to |-> registered, msg |-> MISSING_BLOCK,
     o |-> [from |-> "donald", missing |-> o.prevBlockHash]]

LongestSealed ==
    CHOOSE n \in 0..(MaxMined + 1) :
        /\ n = 0 \/ \E x \in sealed : x.chainLength = n
        /\ \A x \in sealed : x.chainLength <= n

LongestBlocks == {x \in sealed : x.chainLength = LongestSealed}

\* all registered participants have heads of one chain length, the only longest block if
\* there is exactly one
Converged ==
    /\ \A p, q \in registered : cl[p].lastBlock.chainLength = cl[q].lastBlock.chainLength
    /\ \A x \in LongestBlocks :
          LongestBlocks = {x} => \A p \in registered : hashVal(cl[p].lastBlock) = x.id

\* C9 as stated: with every message delivered, eventually all registered participants'
\* heads have the same chain length, and are the longest block if there is exactly one.
C9_AllConverge == <>[]Converged

\* the same for the participants that were registered when a longest block was announced
ConvergedHearers ==
    \A x \in LongestBlocks : \A p \in x.regs :
        /\ cl[p].lastBlock.chainLength = LongestSealed
        /\ LongestBlocks = {x} => hashVal(cl[p].lastBlock) = x.id

\* C9 amended: with every message delivered, eventually every participant that was
\* registered when a block of the greatest chain length was announced has a head of that
\* chain length, and that block as head if it is the only one of that length.
C9_HearersConverge == <>[]ConvergedHearers

\* minnie and donald both heard the only longest block and have it as head
C9_Witness ==
    /\ net = {}
    /\ registered = Miners
    /\ LongestSealed = 2
    /\ \E x \in LongestBlocks :
          /\ LongestBlocks = {x}
          /\ x.regs = Miners
          /\ \A p \in Miners : hashVal(cl[p].lastBlock) = x.id

-----------------------------------------------------------------------------
(* Properties of receiveBlock (SpecRecv) *)

\* the received block, and what the pipeline finds about it in the state it ran on
RcvBlock == deserializeBlock(ev.o)
RcvParentKnown == MapHas(ev.pre.blocks, RcvBlock.prevBlockHash)
RcvRerun == rerun(RcvBlock, ev.pre.blocks[RcvBlock.prevBlockHash])
RcvWaiting == MapHas(ev.pre.pendingBlocks, hashVal(RcvRerun.b))

\* b descends from the block with id a through blocks held in store
RECURSIVE Descends(_, _, _)
Descends(store, b, a) ==
    /\ b.chainLength # 0
    /\ \/ b.prevBlockHash = a
       \/ /\ MapHas(store, b.prevBlockHash)
          /\ Descends(store, store[b.prevBlockHash], a)

\* the case of C1: a block with a valid proof, a stored parent and a successful rerun
\* that is longer than the head
C1_Case ==
    /\ ev.op = "receiveBlock"
    /\ hasValidProof(RcvBlock)
    /\ RcvParentKnown
    /\ RcvRerun.ok
    /\ RcvBlock.chainLength > ev.pre.lastBlock.chainLength

\* C1 as stated: in that case, when receiveBlock returns lastBlock is B.
C1_HeadIsReceived ==
    C1_Case => cl[ev.who].lastBlock = RcvRerun.b

\* C1 amended: in that case B is stored, and lastBlock is B unless blocks buffered for B
\* were unstuck; then it is B or a stored, strictly longer descendant of B.
C1_HeadIsReceivedOrUnstuck ==
    C1_Case =>
        LET s == cl[ev.who]
            b == RcvRerun.b
        IN /\ MapHas(s.blocks, hashVal(b)) /\ s.blocks[hashVal(b)] = b
           /\ ~RcvWaiting => s.lastBlock = b
           /\ \/ s.lastBlock = b
              \/ /\ RcvWaiting
                 /\ s.lastBlock.chainLength > b.chainLength
                 /\ MapHas(s.blocks, hashVal(s.lastBlock))
                 /\ Descends(s.blocks, s.lastBlock, hashVal(b))

\* a longer block arrives while its child is buffered, and the head moves past it
C1_Witness ==
    /\ C1_Case
    /\ RcvWaiting
    /\ cl[ev.who].lastBlock # RcvRerun.b

\* the case of C2: a valid block that is not longer than the head
C2_Case ==
    /\ ev.op = "receiveBlock"
    /\ hasValidProof(RcvBlock)
    /\ RcvParentKnown
    /\ RcvRerun.ok
    /\ RcvBlock.chainLength <= ev.pre.lastBlock.chainLength

C10_OnlyValidStored ==
    /\ \A p \in DOMAIN cl : \A id \in DOMAIN cl[p].blocks :
          LET b == cl[p].blocks[id]
          IN ~isGenesisBlock(b) =>
                /\ hasValidProof(b)
                /\ MapHas(cl[p].blocks, b.prevBlockHash)
                /\ rerun(b, cl[p].blocks[b.prevBlockHash]).ok
    /\ (/\ ev.op = "receiveBlock"
        /\ \/ ~hasValidProof(RcvBlock)
           \/ RcvParentKnown /\ ~RcvRerun.ok)
         => /\ cl[ev.who].blocks = ev.pre.blocks
            /\ cl[ev.who].pendingBlocks = ev.pre.pendingBlocks
            /\ cl[ev.who].lastBlock = ev.pre.lastBlock
            /\ cl[ev.who].lastConfirmedBlock = ev.pre.lastConfirmedBlock

\* C11: every stored block other than a genesis block has its parent in the store and the
\* parent's chainLength plus 1; a block that receiveBlock has just stored has the
\* chainLength of its stored parent plus 1.
C11_ChainLengthSuccession ==
    /\ \A p \in DOMAIN cl : \A id \in DOMAIN cl[p].blocks :
          LET b == cl[p].blocks[id]
          IN ~isGenesisBlock(b) =>
                /\ MapHas(cl[p].blocks, b.prevBlockHash)
                /\ b.chainLength = cl[p].blocks[b.prevBlockHash].chainLength + 1
    /\ (/\ ev.op = "receiveBlock"
        /\ ~isGenesisBlock(RcvBlock)
        /\ RcvParentKnown
        /\ MapHas(cl[ev.who].blocks, hashVal(RcvRerun.b))
        /\ ~MapHas(ev.pre.blocks, hashVal(RcvRerun.b)))
         => RcvBlock.chainLength = ev.pre.blocks[RcvBlock.prevBlockHash].chainLength + 1

\* the case of C17: a block with a valid proof, not yet stored, whose parent is not stored
C17_Case ==
    /\ ev.op = "receiveBlock"
    /\ ~isGenesisBlock(RcvBlock)
    /\ hasValidProof(RcvBlock)
    /\ ~MapHas(ev.pre.blocks, hashVal(RcvBlock))
    /\ ~RcvParentKnown

\* the MISSING_BLOCK broadcasts among the sends of the last handler
RequestsSent == SelectSeq(ev.out, LAMBDA e : e.msg = MISSING_BLOCK)

\* C17: a valid block whose parent is not in the store is added to pendingBlocks under the
\* parent's id, with blocks (and so every balance), lastBlock and lastConfirmedBlock
\* unchanged, and the parent is requested only if no block waited for it; over a whole run
\* a participant broadcasts at most one MISSING_BLOCK request per missing parent id.
C17_OneRequestPerParent ==
    /\ C17_Case =>
          /\ ev.ret = NoBlock
          /\ cl[ev.who] =
                [ev.pre EXCEPT !.pendingBlocks =
                    MapSet(@, RcvBlock.prevBlockHash,
                           Append(IF MapHas(@, RcvBlock.prevBlockHash)
                                  THEN @[RcvBlock.prevBlockHash] ELSE <<>>, RcvBlock))]
          /\ RequestsSent =
                IF MapHas(ev.pre.pendingBlocks, RcvBlock.prevBlockHash) THEN <<>>
                ELSE <<broadcast(registered, ev.who, MISSING_BLOCK,
                                 [from |-> ev.who, missing |-> RcvBlock.prevBlockHash])>>
    /\ \A k \in DOMAIN asked : asked[k] <= 1

\* a second block comes to wait for a parent that was requested before, and no request
\* is sent for it
C17_Witness ==
    /\ C17_Case
    /\ MapHas(ev.pre.pendingBlocks, RcvBlock.prevBlockHash)
    /\ Len(cl[ev.who].pendingBlocks[RcvBlock.prevBlockHash]) = 2
    /\ asked[<<ev.who, RcvBlock.prevBlockHash>>] = 1
    /\ ev.out = <<>>

\* the block n steps behind b along prevBlockHash, through the blocks of store
RECURSIVE StepsBack(_, _, _)
StepsBack(store, b, n) ==
    IF n = 0 \/ ~MapHas(store, b.prevBlockHash) THEN b
    ELSE StepsBack(store, store[b.prevBlockHash], n - 1)

\* C19: between handlers, lastConfirmedBlock is the ancestor of lastBlock, on lastBlock's
\* branch, of chainLength max(0, lastBlock.chainLength - CONFIRMED_DEPTH); it is the
\* genesis block while lastBlock.chainLength <= CONFIRMED_DEPTH.
C19_ConfirmedBlock ==
    \A p \in DOMAIN cl :
        LET s == cl[p]
            depth == IF s.lastBlock.chainLength <= CONFIRMED_DEPTH
                     THEN s.lastBlock.chainLength ELSE CONFIRMED_DEPTH
        IN /\ s.lastConfirmedBlock = StepsBack(s.blocks, s.lastBlock, depth)
           /\ s.lastConfirmedBlock.chainLength = s.lastBlock.chainLength - depth
           /\ s.lastBlock.chainLength <= CONFIRMED_DEPTH => s.lastConfirmedBlock = makeGenesis

-----------------------------------------------------------------------------
(* Properties of SpecBlock *)

RECURSIVE ConcatTxs(_)
ConcatTxs(blocks) ==
    IF blocks = <<>> THEN <<>>
    ELSE Head(blocks).transactions \o ConcatTxs(Tail(blocks))

\* the nonces of the transactions of sender a along a sequence of blocks, in inclusion order
NoncesOf(blocks, a) ==
    LET es == SelectSeq(ConcatTxs(blocks), LAMBDA e : e.tx.from = a)
    IN [i \in 1..Len(es) |-> es[i].tx.nonce]

CountUp(n) == [i \in 1..n |-> i - 1]

NonceBefore(block, a) == IF MapHas(block.nextNonce, a) THEN block.nextNonce[a] ELSE 0

\* C4: addTransaction accepts tx only when tx.nonce is the sender's next nonce (0 if absent),
\* then sets the sender's next nonce to tx.nonce + 1 and leaves every other sender's alone;
\* along the chain each sender's included nonces are 0, 1, 2, ... in inclusion order.
C4_NonceOrder ==
    /\ (ev.op = "addTransaction" /\ ev.ok) =>
          /\ ev.tx.nonce = NonceBefore(ev.pre, ev.tx.from)
          /\ MapHas(Last(chain).nextNonce, ev.tx.from)
          /\ Last(chain).nextNonce[ev.tx.from] = ev.tx.nonce + 1
          /\ \A a \in Addr \ {ev.tx.from} :
                /\ MapHas(Last(chain).nextNonce, a) = MapHas(ev.pre.nextNonce, a)
                /\ NonceBefore(Last(chain), a) = NonceBefore(ev.pre, a)
    /\ \A a \in Addr : \A i \in 1..Len(chain) :
          /\ NoncesOf(SubSeq(chain, 1, i), a) = CountUp(Len(NoncesOf(SubSeq(chain, 1, i), a)))
          /\ NonceBefore(chain[i], a) = Len(NoncesOf(SubSeq(chain, 1, i), a))

\* a transaction is accepted in a later block while another sender already has a next nonce
C4_Witness ==
    /\ ev.op = "addTransaction" /\ ev.ok
    /\ Len(chain) = 3
    /\ \E a \in Addr \ {ev.tx.from} : MapHas(ev.pre.nextNonce, a) /\ ev.pre.nextNonce[a] = 1

\* C5: with a genesis of non-negative balances, every block built by new Block and
\* addTransaction, and every block rebuilt by a successful rerun, has only balances >= 0.
C5_NonNegativeBalances ==
    /\ \A i \in 1..Len(chain) : \A a \in DOMAIN chain[i].balances : chain[i].balances[a] >= 0
    /\ (ev.op = "rerun" /\ ev.ok) => \A a \in DOMAIN ev.b.balances : ev.b.balances[a] >= 0

\* the tests of addTransaction that tx fails on block, each taken on its own
AddRejections(block, tx) ==
    {r \in {"duplicate", "unsigned", "signature", "funds", "replayed", "out of order"} :
        \/ r = "duplicate" /\ contains(block, tx)
        \/ r = "unsigned" /\ tx.sig = NoSig
        \/ r = "signature" /\ ~validSignature(tx)
        \/ r = "funds" /\ ~sufficientFunds(tx, block)
        \/ r = "replayed" /\ tx.nonce < NonceBefore(block, tx.from)
        \/ r = "out of order" /\ tx.nonce > NonceBefore(block, tx.from)}

\* C12: addTransaction(tx) returns false and leaves the block (its transactions, balances
\* and nextNonce) as it was whenever tx.id is already in the block, tx is unsigned, its
\* signature is invalid, the sender's funds are insufficient, or tx.nonce is below or above
\* the sender's next nonce.
C12_RejectionLeavesBlock ==
    (ev.op = "addTransaction" /\ AddRejections(ev.pre, ev.tx) # {})
      => /\ ~ev.ok
         /\ Last(chain).transactions = ev.pre.transactions
         /\ Last(chain).balances = ev.pre.balances
         /\ Last(chain).nextNonce = ev.pre.nextNonce

\* a signed transaction with the sender's next nonce is rejected only for lack of funds,
\* by a block that already holds a transaction
C12_Witness ==
    /\ ev.op = "addTransaction" /\ ~ev.ok
    /\ AddRejections(ev.pre, ev.tx) = {"funds"}
    /\ ev.pre.transactions # <<>>
    /\ Last(chain) = ev.pre

\* the sum of the amounts of tx's outputs addressed to a
PaidTo(tx, a) ==
    SumSeq([i \in 1..Len(tx.outputs) |->
               IF tx.outputs[i].address = a THEN tx.outputs[i].amount ELSE 0])

\* C13: when addTransaction(tx) returns true, tx is appended to the block's transactions,
\* tx.from is debited fee + the sum of the output amounts, every output address is credited
\* its output amounts (also when it occurs several times or is tx.from), and every other
\* address keeps its balance.
C13_SuccessEffect ==
    (ev.op = "addTransaction" /\ ev.ok) =>
        /\ Last(chain).transactions =
              Append(ev.pre.transactions, [id |-> txId(ev.tx), tx |-> ev.tx])
        /\ \A a \in Addr \cup DOMAIN Last(chain).balances :
              balanceOf(Last(chain), a) =
                 balanceOf(ev.pre, a) + PaidTo(ev.tx, a)
                   - (IF a = ev.tx.from
                      THEN ev.tx.fee + SumSeq([i \in 1..Len(ev.tx.outputs) |->
                                                  ev.tx.outputs[i].amount])
                      ELSE 0)
        /\ \A a \in DOMAIN Last(chain).balances :
              a \in DOMAIN ev.pre.balances
                \/ a = ev.tx.from \/ \E i \in 1..Len(ev.tx.outputs) : ev.tx.outputs[i].address = a

\* a transaction that pays bob twice is accepted
C13_Witness ==
    /\ ev.op = "addTransaction" /\ ev.ok
    /\ Len(ev.tx.outputs) = 2
    /\ ev.tx.outputs[1].address = ev.tx.outputs[2].address
    /\ balanceOf(Last(chain), "bob") = balanceOf(ev.pre, "bob") + 80

\* the block that the last new Block or rerun started from its parent's balances, before
\* any of its own transactions is applied, and that parent
StartedBlock ==
    IF ev.op = "new" THEN Last(chain)
    ELSE rerun([deserializeBlock(toJSON(ev.pre)) EXCEPT !.transactions = <<>>],
               chain[Len(chain) - 1]).b
StartedOn == IF ev.op = "new" THEN ev.prev ELSE chain[Len(chain) - 1]

\* the balances of block b are those of p but for reward more at address r
CreditedOnce(b, p, r, reward) ==
    /\ \A a \in (Addr \cup DOMAIN b.balances \cup DOMAIN p.balances) \ {r} :
          /\ MapHas(b.balances, a) = MapHas(p.balances, a)
          /\ balanceOf(b, a) = balanceOf(p, a)
    /\ balanceOf(b, r) = balanceOf(p, r) + reward
    /\ SumMap(b.balances) = SumMap(p.balances) + reward

\* C14 as stated: a block constructed on, or rerun against, parent P starts from P's
\* balances with P.rewardAddr credited P.totalRewards() = coinbase reward + the fees of P's
\* transactions, so the sum of its balances is the sum of P's plus totalRewards(P).
C14_DeferredReward ==
    ev.op \in {"new", "rerun"} =>
        CreditedOnce(StartedBlock, StartedOn, StartedOn.rewardAddr, totalRewards(StartedOn))

\* C14 amended: that holds when P has a rewardAddr; a block constructed on, or rerun
\* against, a block without one (the genesis block) starts from P's balances unchanged,
\* with the same sum.
C14_DeferredRewardButGenesis ==
    ev.op \in {"new", "rerun"} =>
        IF StartedOn.rewardAddr # Undefined
        THEN CreditedOnce(StartedBlock, StartedOn, StartedOn.rewardAddr, totalRewards(StartedOn))
        ELSE /\ StartedBlock.balances = StartedOn.balances
             /\ SumMap(StartedBlock.balances) = SumMap(StartedOn.balances)

\* a block is built on a block of another miner that holds a transaction with a fee
C14_Witness ==
    /\ ev.op = "new"
    /\ ev.prev.rewardAddr \in Miners
    /\ Last(chain).rewardAddr # ev.prev.rewardAddr
    /\ totalRewards(ev.prev) = COINBASE_AMT_ALLOWED + DEFAULT_TX_FEE
    /\ balanceOf(Last(chain), ev.prev.rewardAddr)
          = balanceOf(ev.prev, ev.prev.rewardAddr) + COINBASE_AMT_ALLOWED + DEFAULT_TX_FEE
    /\ balanceOf(Last(chain), Last(chain).rewardAddr) = balanceOf(ev.prev, Last(chain).rewardAddr)

\* C15 as stated: a successful addTransaction leaves the sum of all balances of the block
\* unchanged, whatever the fee.
C15_SumUnchanged ==
    (ev.op = "addTransaction" /\ ev.ok) =>
        SumMap(Last(chain).balances) - SumMap(ev.pre.balances) = 0

\* C15 amended: a successful addTransaction lowers the sum of all balances of the block by
\* tx.fee, and leaves it unchanged only when the fee is 0.
C15_SumDropsByFee ==
    (ev.op = "addTransaction" /\ ev.ok) =>
        SumMap(Last(chain).balances) - SumMap(ev.pre.balances) = 0 - ev.tx.fee

\* a transaction with the default fee and two outputs is accepted
C15_Witness ==
    /\ ev.op = "addTransaction" /\ ev.ok
    /\ ev.tx.fee = DEFAULT_TX_FEE
    /\ Len(ev.tx.outputs) = 2
    /\ SumMap(Last(chain).balances) = SumMap(ev.pre.balances) - DEFAULT_TX_FEE

====
